---------------------------- MODULE Spec2Model ----------------------------
(***************************************************************************)
(* Model of the glossary portal (GlosarioIngenieriaInformatica).           *)
(*                                                                         *)
(* The repository holds three variants of the same single-page app:        *)
(*   "app" : src/assets/js/app.js                                          *)
(*   "A"   : src/unnamed/part_000, first IIFE  (lines 12-537)              *)
(*   "B"   : src/unnamed/part_000, second IIFE (lines 551-1006)            *)
(* A page runs exactly one of them; the variable `variant` says which.     *)
(*                                                                         *)
(* Strings whose content matters (terms, titles, codes, queries, display   *)
(* texts) are sequences of one-character strings, so that toLowerCase,     *)
(* trim, includes and the template literals are computed, not assumed.     *)
(***************************************************************************)
EXTENDS Integers, Sequences, FiniteSets, TLC

\* ======================================================================
\* JavaScript string primitives
\* ======================================================================

UpperChars == <<"A","B","C","D","E","F","G","H","I","J","K","L","M",
                "N","O","P","Q","R","S","T","U","V","W","X","Y","Z">>

LowerChars == <<"a","b","c","d","e","f","g","h","i","j","k","l","m",
                "n","o","p","q","r","s","t","u","v","w","x","y","z">>

\* String.prototype.toLowerCase on one character.
LowerChar(c) ==
  IF \E i \in 1..Len(UpperChars) : UpperChars[i] = c
    THEN LowerChars[CHOOSE i \in 1..Len(UpperChars) : UpperChars[i] = c]
    ELSE c

\* String.prototype.toLowerCase.
toLowerCase(s) == [i \in 1..Len(s) |-> LowerChar(s[i])]

\* String.prototype.trim: strips the white space at both ends.
RECURSIVE trimStart(_)
trimStart(s) == IF s # <<>> /\ Head(s) = " " THEN trimStart(Tail(s)) ELSE s

RECURSIVE trimEnd(_)
trimEnd(s) ==
  IF s # <<>> /\ s[Len(s)] = " " THEN trimEnd(SubSeq(s, 1, Len(s) - 1)) ELSE s

trim(s) == trimEnd(trimStart(s))

\* String.prototype.includes: q occurs in s as a contiguous substring.
includes(s, q) ==
  \E i \in 0..(Len(s) - Len(q)) : SubSeq(s, i + 1, i + Len(q)) = q

\* Array.prototype.slice(0, n).
slice0(seq, n) == SubSeq(seq, 1, IF Len(seq) < n THEN Len(seq) ELSE n)

\* Array.prototype.flat of a sequence of sequences.
RECURSIVE Flatten(_)
Flatten(ss) == IF ss = <<>> THEN <<>> ELSE Head(ss) \o Flatten(Tail(ss))


\* ======================================================================
\* The glossary document (data/glossary.json)
\* ======================================================================

\* A card record: id, es, en, def_es, def_en, img (README.md, glossary.json).
Card(id, es, en) ==
  [id |-> id, es |-> es, en |-> en,
   def_es |-> "def_es", def_en |-> "def_en", img |-> id]

\* A group record: id, title, members[], cards[].
Group(id, title, cards) ==
  [id |-> id, title |-> title, members |-> <<>>, cards |-> cards]

\* A window (tab) record: id, title, groups[] (ids of groups of the subject).
Window(id, title, groupIds) == [id |-> id, title |-> title, groups |-> groupIds]

\* A subject record.  `windows` is optional in the file: hasWindows says
\* whether the key is present at all (absent: materia.windows is undefined).
Subject(id, code, title, groups, hasWindows, windows) ==
  [id |-> id, code |-> code, title |-> title, description |-> "description",
   groups |-> groups, hasWindows |-> hasWindows, windows |-> windows]

\* ---- the words the documents and the queries are made of ----

w_hola  == <<"h","o","l","a">>
w_hello == <<"h","e","l","l","o">>
w_Intro == <<"I","n","t","r","o">>
w_Basics == <<"B","a","s","i","c","s">>
w_101   == <<"1","0","1">>
w_202   == <<"2","0","2">>
w_Redes == <<"R","e","d","e","s">>
w_abc   == <<"a","b","c">>
w_ABC   == <<"A","B","C">>
w_cde   == <<"c","d","e">>
w_abc_cde == <<"a","b","c"," ","/"," ","c","d","e">>

\* The document of the spec's example: one subject S1, one group G1, one
\* card c1 (hola / hello).  It defines no windows.
DocExample ==
  << Subject("S1", w_101, w_Intro,
             << Group("G1", w_Basics, << Card("c1", w_hola, w_hello) >>) >>,
             FALSE, <<>>) >>

\* Terms the cards of the generated documents draw from.
Terms == { w_abc, w_ABC, w_cde, w_abc_cde }

\* A one-subject document with windows whose single group holds two cards.
DocPair(es1, en1, es2, en2) ==
  << Subject("S1", w_101, w_Intro,
             << Group("G1", w_Basics,
                      << Card("c1", es1, en1), Card("c2", es2, en2) >>) >>,
             TRUE, << Window("W1", w_Basics, << "G1" >>) >>) >>

\* Two subjects that hold the same term in different groups.
DocTwo ==
  << Subject("S1", w_101, w_Intro,
             << Group("G1", w_Basics, << Card("c1", w_hola, w_hello) >>) >>,
             TRUE, << Window("W1", w_Basics, << "G1" >>) >>),
     Subject("S2", w_202, w_Redes,
             << Group("G2", w_hola, << Card("c2", w_abc, w_hola) >>),
                Group("G3", w_Redes, << Card("c3", w_cde, w_abc) >>) >>,
             TRUE, << Window("W2", w_hola, << "G2" >>),
                      Window("W3", w_Redes, << "G3" >>) >>) >>

Digits == <<"0","1","2","3","4","5","6","7","8","9">>

\* The decimal digits of a number below 100, as a string.
NumStr(n) ==
  IF n < 10 THEN << Digits[n + 1] >>
  ELSE << Digits[(n \div 10) + 1], Digits[(n % 10) + 1] >>

\* A one-subject document whose single group holds n cards with pairwise
\* different terms that all contain "term".
DocMany(n) ==
  << Subject("S1", w_101, w_Intro,
             << Group("G1", w_Basics,
                      [i \in 1..n |->
                         Card("c" \o ToString(i),
                              <<"t","e","r","m">> \o NumStr(i),
                              <<"w","o","r","d">> \o NumStr(i))]) >>,
             TRUE, << Window("W1", w_Basics, << "G1" >>) >>) >>


\* ======================================================================
\* Search: the three variants' filters
\* ======================================================================

\* The cap on the result list (B line 805; also A line 435).
MaxResults == 10

\* What becomes an <li> of the autocomplete list: the result's type, its
\* display text, and the ids the click handler navigates with.
Match(type, text, sid, gid, cid) ==
  [type |-> type, text |-> text, sid |-> sid, gid |-> gid, cid |-> cid]

\* ---- variant "app": the body of handleSearch, app.js lines 372-421 ----

\* A pushed result: { type, data, subjectId, groupId }.
Item_app(type, data, subjectId, groupId) ==
  [type |-> type, data |-> data, subjectId |-> subjectId, groupId |-> groupId]

\* Lines 384-388: the cards of one group that match.
cardItems_app(subject, group, query) ==
  LET hit(card) == \/ includes(toLowerCase(card.es), query)
                   \/ includes(toLowerCase(card.en), query)
  IN  [i \in 1..Len(SelectSeq(group.cards, hit)) |->
         Item_app("card", SelectSeq(group.cards, hit)[i], subject.id, group.id)]

\* Lines 380-389: one group: the group itself, then its cards.
groupItems_app(subject, group, query) ==
  (IF includes(toLowerCase(group.title), query)
     THEN << Item_app("group", group, subject.id, "") >> ELSE <<>>)
  \o cardItems_app(subject, group, query)

\* Lines 373-390: one subject: the subject itself, then its groups.
subjectItems_app(subject, query) ==
  (IF \/ includes(toLowerCase(subject.title), query)
      \/ includes(toLowerCase(subject.code), query)
     THEN << Item_app("subject", subject, "", "") >> ELSE <<>>)
  \o Flatten([g \in 1..Len(subject.groups) |->
                groupItems_app(subject, subject.groups[g], query)])

\* Lines 372-390: all pushed results, in document order.
results_app(data, query) ==
  Flatten([s \in 1..Len(data) |-> subjectItems_app(data[s], query)])

\* Two items have the same JSON.stringify text.
sameJson(a, b) ==
  /\ a.type = b.type
  /\ a.subjectId = b.subjectId
  /\ a.groupId = b.groupId
  /\ a.data = b.data

\* Line 393: [...new Map(results.map(item => [JSON.stringify(item), item]))
\* .values()]: one item per distinct JSON text, at its first position.
uniqueResults_app(results) ==
  LET keep == { i \in 1..Len(results) :
                  ~ \E j \in 1..(i - 1) : sameJson(results[j], results[i]) }
      RECURSIVE pick(_)
      pick(i) == IF i > Len(results) THEN <<>>
                 ELSE (IF i \in keep THEN << results[i] >> ELSE <<>>) \o pick(i + 1)
  IN  pick(1)

\* Lines 400 and 404: item.data.title || item.data.es || item.data.en.
displayText_app(item) ==
  IF item.type = "card"
    THEN (IF item.data.es # <<>> THEN item.data.es ELSE item.data.en)
    ELSE item.data.title

\* Lines 397-419: the <li> of one item and what its click handler uses.
listItem_app(item) ==
  Match(item.type, displayText_app(item),
        IF item.type = "subject" THEN item.data.id ELSE item.subjectId,
        IF item.type = "card" THEN item.groupId
        ELSE IF item.type = "group" THEN item.data.id ELSE "",
        IF item.type = "card" THEN item.data.id ELSE "")

\* Lines 372-420: the items the list holds after a run for a non-empty query.
searchItems_app(data, query) ==
  LET u == uniqueResults_app(results_app(data, query))
  IN  [i \in 1..Len(u) |-> listItem_app(u[i])]


\* ---- variant "A": searchGlossary, part_000 lines 399-436 ----

\* Line 409: `${materia.code} - ${materia.title}`.
materiaText(materia) == materia.code \o <<" ","-"," ">> \o materia.title

\* Line 419: `Grupo: "${group.title}" en ${materia.code}`.
grupoText_A(group, materia) ==
  <<"G","r","u","p","o",":"," ","\"">> \o group.title
  \o <<"\""," ","e","n"," ">> \o materia.code

\* Line 427: `Término: "${card.es}" en ${materia.code}`.
tarjetaText_A(card, materia) ==
  <<"T","é","r","m","i","n","o",":"," ","\"">> \o card.es
  \o <<"\""," ","e","n"," ">> \o materia.code

\* Lines 422-430: the cards of one group that match.
cardResults_A(materia, group, lowerQuery) ==
  LET hit(card) == \/ includes(toLowerCase(card.es), lowerQuery)
                   \/ includes(toLowerCase(card.en), lowerQuery)
      hits == SelectSeq(group.cards, hit)
  IN  [i \in 1..Len(hits) |->
         Match("tarjeta", tarjetaText_A(hits[i], materia), materia.id, "", "")]

\* Lines 414-431: one group: the group itself, then its cards.
groupResults_A(materia, group, lowerQuery) ==
  (IF includes(toLowerCase(group.title), lowerQuery)
     THEN << Match("grupo", grupoText_A(group, materia), materia.id, "", "") >>
     ELSE <<>>)
  \o cardResults_A(materia, group, lowerQuery)

\* Lines 403-432: one subject: the subject itself, then its groups.
materiaResults_A(materia, lowerQuery) ==
  (IF \/ includes(toLowerCase(materia.code), lowerQuery)
      \/ includes(toLowerCase(materia.title), lowerQuery)
     THEN << Match("materia", materiaText(materia), materia.id, "", "") >>
     ELSE <<>>)
  \o Flatten([g \in 1..Len(materia.groups) |->
                groupResults_A(materia, materia.groups[g], lowerQuery)])

\* Lines 399-436: searchGlossary(query), capped by slice(0, 10).
searchGlossary(data, query) ==
  slice0(Flatten([m \in 1..Len(data) |->
                    materiaResults_A(data[m], toLowerCase(query))]),
         MaxResults)

\* ---- variant "B": the body of handleSearch, part_000 lines 786-805 ----

\* Line 795: `${group.title} (en ${materia.title})`.
grupoText_B(group, materia) ==
  group.title \o <<" ","(","e","n"," ">> \o materia.title \o <<")">>

\* Line 799: `${card.es} / ${card.en}`.
tarjetaText_B(card) == card.es \o <<" ","/"," ">> \o card.en

\* results.some(r => r.text === text).
someText(results, text) == \E k \in 1..Len(results) : results[k].text = text

\* Lines 797-801: the cards of one group, pushed onto the results so far.
RECURSIVE pushCards_B(_, _, _, _, _)
pushCards_B(results, cards, materia, group, query) ==
  IF cards = <<>> THEN results
  ELSE LET card == Head(cards)
           hit == /\ \/ includes(toLowerCase(card.es), query)
                     \/ includes(toLowerCase(card.en), query)
                  /\ ~ someText(results, card.es)
       IN  pushCards_B(
             IF hit
               THEN Append(results,
                           Match("tarjeta", tarjetaText_B(card),
                                 materia.id, group.id, card.id))
               ELSE results,
             Tail(cards), materia, group, query)

\* Lines 793-802: the groups of one subject, pushed onto the results so far.
RECURSIVE pushGroups_B(_, _, _, _)
pushGroups_B(results, groups, materia, query) ==
  IF groups = <<>> THEN results
  ELSE LET group == Head(groups)
           hit == /\ includes(toLowerCase(group.title), query)
                  /\ ~ someText(results, group.title)
           withGroup ==
             IF hit
               THEN Append(results,
                           Match("grupo", grupoText_B(group, materia),
                                 materia.id, group.id, ""))
               ELSE results
       IN  pushGroups_B(pushCards_B(withGroup, group.cards, materia, group, query),
                        Tail(groups), materia, query)

\* Lines 787-803: the subjects, pushed onto the results so far.
RECURSIVE pushMaterias_B(_, _, _)
pushMaterias_B(results, materias, query) ==
  IF materias = <<>> THEN results
  ELSE LET materia == Head(materias)
           hit == \/ includes(toLowerCase(materia.title), query)
                  \/ includes(toLowerCase(materia.code), query)
           withMateria ==
             IF hit
               THEN Append(results,
                           Match("materia", materiaText(materia),
                                 materia.id, "", ""))
               ELSE results
       IN  pushMaterias_B(pushGroups_B(withMateria, materia.groups, materia, query),
                          Tail(materias), query)

\* Lines 786-805: results.slice(0, 10), what renderSearchResults is given.
searchItems_B(data, query) == slice0(pushMaterias_B(<<>>, data, query), MaxResults)


\* ======================================================================
\* State
\* ======================================================================

Variants == { "app", "A", "B" }

VARIABLES
  variant,       \* which of the three variants the page runs
  file,          \* the document data/glossary.json holds on the server
  glossaryData,  \* the module's cache: [isNull, doc] (B starts at null)
  calls,         \* the calls of loadData: call id -> [pc, ret, ...]
  firstSuccess,  \* history: [done, doc] of the first call that succeeded
  content,       \* the content area: [kind, id]
  exceptions,    \* history: the handlers that raised an uncaught exception
  initPc,        \* where init() is: "start", "awaiting", "done", "aborted"
  attached,      \* the search listeners are installed
  inputValue,    \* the search input's value
  focused,       \* the search input has the focus
  list,          \* the autocomplete list: [items, open, noResults]
  timeout,       \* debounce's closure variable: the id of its last timer
  pending,       \* the timers that are set: records [id, kind, remaining, stale]
  runs,          \* history: [superseded, executed, stale] (see debounced)
  lastRender,    \* history: the last render request: [id, outcome]
  q_path,        \* history: the event whose handler last filled the list
  modal,         \* the modal: [open, body], body the cards it shows
  fills,         \* app.js: the calls of renderModalContent that await
  imageCache,    \* app.js: the image paths safeImageUrl has answered for
  installed,     \* the modal's listeners that init has installed
  hist,          \* history: the last events in the content area
  pageMeta,      \* document.title and the meta description: [title, description]
  images,        \* the <img> of the cards and their probes (see SpecImages)
  closedBy       \* history: what closed the list since the last input or focus event

loaderVars == << glossaryData, calls, firstSuccess >>
pageVars == << content, exceptions, initPc, attached, inputValue, focused,
               list, timeout, pending, runs, lastRender >>
cardVars == << modal, fills, imageCache, installed, hist, pageMeta, images >>
vars == << variant, file, loaderVars, pageVars, q_path, cardVars, closedBy >>

\* ---- bounds of the model ----

\* How many times loadData is called in the loader's specification.
MaxCalls == 3

\* How many timers may be set at the same time.
MaxPending == 2

\* The documents the glossary file may hold.
Files == { <<>>, DocExample, DocTwo }

\* ======================================================================
\* The loader
\* ======================================================================

\* let glossaryData = [] (app.js line 15, A line 18); = null (B line 555).
initialData(v) == [isNull |-> (v = "B"), doc |-> <<>>]

\* B line 577, `if (glossaryData)`: an array, even an empty one, is truthy;
\* app.js and variant A hold no such test and always fetch.
servesFromCache(v, data) == v = "B" /\ ~ data.isNull

IdleCall == [pc |-> "idle", ret |-> <<>>, fetched |-> FALSE,
             afterSuccess |-> FALSE, failed |-> FALSE]

\* The error placeholder loadData writes into the content area
\* (app.js line 128, A line 137, B line 589).
ErrorPlaceholder == [kind |-> "error", id |-> ""]

\* loadData up to its first await: a cache hit returns at once, otherwise
\* the fetch of data/glossary.json is issued (app.js 117-119, A 126-128,
\* B 576-581).
loadData_begin(c) ==
  /\ calls[c].pc = "idle"
  /\ IF servesFromCache(variant, glossaryData)
       THEN calls' = [calls EXCEPT ![c] =
                        [pc |-> "returned", ret |-> glossaryData.doc,
                         fetched |-> FALSE, afterSuccess |-> firstSuccess.done,
                         failed |-> FALSE]]
       ELSE calls' = [calls EXCEPT ![c] =
                        [pc |-> "fetching", ret |-> <<>>,
                         fetched |-> TRUE, afterSuccess |-> firstSuccess.done,
                         failed |-> FALSE]]

\* loadData after the fetch settled with a well-formed document
\* (app.js 123-125, A 132-134, B 585-586).
loadData_ok(c) ==
  /\ calls[c].pc = "fetching"
  /\ glossaryData' = [isNull |-> FALSE, doc |-> file]
  /\ calls' = [calls EXCEPT ![c].pc = "returned", ![c].ret = file]
  /\ firstSuccess' = IF firstSuccess.done THEN firstSuccess
                     ELSE [done |-> TRUE, doc |-> file]

\* loadData after the fetch failed: a network error, a non-OK status or an
\* unparsable body all end in the catch block (app.js 126-130, A 135-138,
\* B 587-591): the placeholder is written and [] is returned; the cache
\* keeps its value.
loadData_fail(c) ==
  /\ calls[c].pc = "fetching"
  /\ content' = ErrorPlaceholder
  /\ calls' = [calls EXCEPT ![c].pc = "returned", ![c].ret = <<>>,
                            ![c].failed = TRUE]
  /\ UNCHANGED << glossaryData, firstSuccess >>


\* ======================================================================
\* The autocomplete list and the search handlers
\* ======================================================================

\* No <li> of a list that was just built is marked active: `selected` holds
\* one flag for each of n <li> (the class autocomplete__item--active in
\* app.js, the attribute aria-selected in B).
NoneSelected(n) == [i \in 1..n |-> FALSE]

\* The list with no <li> in it, closed.
EmptyList ==
  [items |-> <<>>, open |-> FALSE, noResults |-> FALSE, selected |-> <<>>]

\* What a handler leaves: the list, and whether it raised an exception.
Handled(l, threw) == [list |-> l, threw |-> threw]

\* app.js lines 363-427, the function handed to debounce: it runs for the
\* input's value at the time of the run, lower-cased and not trimmed.
handleSearch_app(data, value, l) ==
  LET query == toLowerCase(value)
      items == searchItems_app(data.doc, query)
  IN  IF Len(query) = 0 THEN Handled(EmptyList, FALSE)
      ELSE IF Len(items) > 0
        THEN Handled([items |-> items, open |-> TRUE, noResults |-> FALSE,
                      selected |-> NoneSelected(Len(items))], FALSE)
        ELSE Handled(EmptyList, FALSE)

\* A lines 442-459, updateAutocompleteList(results).
updateAutocompleteList(results) ==
  [items |-> results, open |-> (Len(results) > 0), noResults |-> FALSE,
   selected |-> NoneSelected(Len(results))]

\* A lines 465-473, the function handed to debounce.
debouncedSearch_A(data, value, l) ==
  LET query == trim(value)
  IN  IF Len(query) > 2
        THEN Handled(updateAutocompleteList(searchGlossary(data.doc, query)), FALSE)
        ELSE Handled(updateAutocompleteList(<<>>), FALSE)

\* A lines 477-482, the focus listener: not debounced, not trimmed, and it
\* leaves the list alone when the value is short.
focusSearch_A(data, value, l) ==
  IF Len(value) > 2
    THEN Handled(updateAutocompleteList(searchGlossary(data.doc, value)), FALSE)
    ELSE Handled(l, FALSE)

\* B lines 932-935, clearSearchResults().
clearSearchResults == EmptyList

\* B lines 941-953, renderSearchResults(results): an empty result puts one
\* "no results" <li> into the list.
renderSearchResults(results) ==
  [items |-> results, open |-> TRUE, noResults |-> (Len(results) = 0),
   selected |-> NoneSelected(IF Len(results) = 0 THEN 1 ELSE Len(results))]

\* B lines 779-806, handleSearch(e): glossaryData.forEach raises a TypeError
\* while glossaryData is null, before the list is touched.
handleSearch_B(data, value, l) ==
  LET query == trim(toLowerCase(value))
  IN  IF Len(query) < 2 THEN Handled(clearSearchResults, FALSE)
      ELSE IF data.isNull THEN Handled(l, TRUE)
      ELSE Handled(renderSearchResults(searchItems_B(data.doc, query)), FALSE)

\* The handler of the input event, once debounce lets it run.
onInputRun(v, data, value, l) ==
  CASE v = "app" -> handleSearch_app(data, value, l)
    [] v = "A"   -> debouncedSearch_A(data, value, l)
    [] v = "B"   -> handleSearch_B(data, value, l)


\* ======================================================================
\* Rendering a subject (its outcome; the content area holds the subject)
\* ======================================================================

InitialContent == [kind |-> "initial", id |-> ""]

\* The "not found" placeholder of variant A (line 237).
NotFoundPlaceholder == [kind |-> "notfound", id |-> ""]

\* ---- the elements a render puts into the content area ----

\* One card element: its front face shows card.es, its back face card.en
\* (app.js lines 221 and 236, A lines 156 and 166, B lines 683 and 691).
CardEl(card) == [id |-> card.id, front |-> card.es, back |-> card.en]

\* One group section: its title and one card element for each card record
\* (app.js lines 191-208, A lines 191-204, B lines 655-665).
GroupEl(group) ==
  [id |-> group.id, title |-> group.title,
   cards |-> [c \in 1..Len(group.cards) |-> CardEl(group.cards[c])]]

\* A lines 219-224: the groups of a window, in the order of the window's
\* list of ids; an id no group has is skipped.  find takes the first group
\* with the id.
firstGroup(materia, gid) ==
  materia.groups[CHOOSE g \in 1..Len(materia.groups) :
                   /\ materia.groups[g].id = gid
                   /\ \A h \in 1..(g - 1) : materia.groups[h].id # gid]

windowGroups_A(materia, w) ==
  LET known == SelectSeq(w.groups,
                 LAMBDA gid : \E g \in 1..Len(materia.groups) :
                                materia.groups[g].id = gid)
  IN  [k \in 1..Len(known) |-> GroupEl(firstGroup(materia, known[k]))]

\* B lines 622-623: the subject's groups whose id the window lists, in the
\* order of the subject's groups.
windowGroups_B(materia, w) ==
  LET listed == SelectSeq(materia.groups,
                  LAMBDA g : \E k \in 1..Len(w.groups) : w.groups[k] = g.id)
  IN  [k \in 1..Len(listed) |-> GroupEl(listed[k])]

\* The content area after a render: the tab buttons, the panels, the group
\* sections outside any panel, and the card elements that carry the class
\* card--flipped, each named by its place <<panel, group, card>> (panel 0:
\* outside any panel).  Every element is new, so none is flipped.
SubjectContent(id, tabs, panels, groups) ==
  [kind |-> "subject", id |-> id, tabs |-> tabs, panels |-> panels,
   groups |-> groups, flipped |-> {}]

\* app.js lines 164-183: one section for each group, no tabs.
SubjectContent_app(materia) ==
  SubjectContent(materia.id, <<>>, <<>>,
                 [g \in 1..Len(materia.groups) |-> GroupEl(materia.groups[g])])

\* A lines 257-285: with windows, one tab button and one panel for each
\* window, the first button with aria-selected "true", the others "false",
\* and aria-hidden "false" set on the first panel alone; without, one
\* section for each group.
SubjectContent_A(materia) ==
  IF materia.hasWindows /\ Len(materia.windows) > 0
    THEN SubjectContent(materia.id,
           [i \in 1..Len(materia.windows) |->
              [window |-> materia.windows[i].id, active |-> FALSE,
               ariaSelected |-> IF i = 1 THEN "true" ELSE "false"]],
           [i \in 1..Len(materia.windows) |->
              [window |-> materia.windows[i].id, active |-> FALSE,
               ariaHidden |-> IF i = 1 THEN "false" ELSE "",
               groups |-> windowGroups_A(materia, materia.windows[i])]],
           <<>>)
    ELSE SubjectContent(materia.id, <<>>, <<>>,
           [g \in 1..Len(materia.groups) |-> GroupEl(materia.groups[g])])

\* B lines 615-647: one tab button and one panel for each window, the first
\* of each with the class --active; aria-selected is "true" on the first
\* button and "false" on the others.
SubjectContent_B(materia) ==
  SubjectContent(materia.id,
    [i \in 1..Len(materia.windows) |->
       [window |-> materia.windows[i].id, active |-> (i = 1),
        ariaSelected |-> IF i = 1 THEN "true" ELSE "false"]],
    [i \in 1..Len(materia.windows) |->
       [window |-> materia.windows[i].id, active |-> (i = 1),
        ariaHidden |-> "",
        groups |-> windowGroups_B(materia, materia.windows[i])]],
    <<>>)

\* glossaryData.find(m => m.id === id) finds a subject.
hasMateria(data, id) == \E i \in 1..Len(data.doc) : data.doc[i].id = id

findMateria(data, id) ==
  data.doc[CHOOSE i \in 1..Len(data.doc) : data.doc[i].id = id]

Rendered(c, outcome) == [content |-> c, outcome |-> outcome]

\* app.js lines 156-184: an unknown id is logged and the function returns.
renderMateria_app(data, id, c) ==
  IF ~ hasMateria(data, id) THEN Rendered(c, "notfound")
  ELSE Rendered(SubjectContent_app(findMateria(data, id)), "ok")

\* A lines 233-289 without the emptying of the container at line 241: the
\* cards that were flipped stay flipped.
renderMateria_A_keepsFlipped(data, id, c) ==
  IF ~ hasMateria(data, id) THEN Rendered(NotFoundPlaceholder, "notfound")
  ELSE Rendered([SubjectContent_A(findMateria(data, id)) EXCEPT
                   !.flipped = IF c.kind = "subject" THEN c.flipped ELSE {}],
                "ok")

\* A lines 233-289: an unknown id is logged and the placeholder is written.
renderMateria_A(data, id, c) ==
  IF ~ hasMateria(data, id) THEN Rendered(NotFoundPlaceholder, "notfound")
  ELSE Rendered(SubjectContent_A(findMateria(data, id)), "ok")

\* B lines 602-648: glossaryData.find raises a TypeError on null; an unknown
\* id is logged and the function returns; materia.windows.map raises a
\* TypeError when the subject has no `windows` key.
renderMateria_B(data, id, c) ==
  IF data.isNull THEN Rendered(c, "threw")
  ELSE IF ~ hasMateria(data, id) THEN Rendered(c, "notfound")
  ELSE IF ~ findMateria(data, id).hasWindows THEN Rendered(c, "threw")
  ELSE Rendered(SubjectContent_B(findMateria(data, id)), "ok")

\* What renderMateria leaves in document.title and in the meta description
\* when they hold m.  A lines 242-245 write them once the subject is found;
\* B lines 609-610 write them once the subject is found, before line 615
\* can raise; app.js lines 156-184 never write them.
InitialMeta == [title |-> <<"Portal Académico">>, description |-> "site"]

metaOf(materia) ==
  [title |-> materia.title \o <<" | Portal Académico">>,
   description |-> materia.description]

metaAfter(v, data, id, m) ==
  CASE v = "app" -> m
    [] v = "A"   -> IF hasMateria(data, id) THEN metaOf(findMateria(data, id)) ELSE m
    [] v = "B"   -> IF ~ data.isNull /\ hasMateria(data, id)
                      THEN metaOf(findMateria(data, id)) ELSE m

renderMateria(v, data, id, c) ==
  CASE v = "app" -> renderMateria_app(data, id, c)
    [] v = "A"   -> renderMateria_A(data, id, c)
    [] v = "B"   -> renderMateria_B(data, id, c)

\* ======================================================================
\* Timers and debounce
\* ======================================================================

\* The debounce delay (app.js line 427, A line 473, B line 745), the delay
\* of A's blur listener (line 488), and the time one Tick lets pass.
DebounceMs == 300
BlurMs == 200
TickMs == 100

Timer(id, kind, ms) == [id |-> id, kind |-> kind, remaining |-> ms, stale |-> FALSE]

\* setTimeout's return value: an id no set timer has and that debounce's
\* closure does not hold either.
freshId(timers, held) ==
  CHOOSE i \in 1..(MaxPending + 2) :
    /\ i # held
    /\ \A t \in timers : t.id # i
    /\ \A j \in 1..(i - 1) : j = held \/ \E t \in timers : t.id = j

\* clearTimeout(id): a no-op when no set timer has that id.
clearTimeout(timers, id) == { t \in timers : t.id # id }

\* History: the runs a further call of the debounced function found still
\* set are superseded by it.
supersede(timers) ==
  { IF t.kind = "search" THEN [t EXCEPT !.stale = TRUE] ELSE t : t \in timers }

\* One call of the function debounce returns: without its clearTimeout.
debounce_noClear(timers, held) ==
  LET id == freshId(timers, held)
  IN  [pending |-> supersede(timers) \cup { Timer(id, "search", DebounceMs) },
       timeout |-> id]

\* One call of the function debounce returns (app.js lines 78-81, A lines
\* 68-71, B lines 984-988): clearTimeout(timer); timer = setTimeout(...).
debounce(timers, held) ==
  LET id == freshId(timers, held)
  IN  [pending |-> supersede(clearTimeout(timers, held))
                     \cup { Timer(id, "search", DebounceMs) },
       timeout |-> id]


\* ======================================================================
\* The page: initialisation and the events of the search field
\* ======================================================================

\* The values the user gives the search input.
Values ==
  { <<>>, <<"h">>, <<"h","o">>, <<"h","o","l">>, <<"h","o","l"," ">>,
    <<"z","z","z">> }

IdleCalls == [c \in 1..MaxCalls |-> IdleCall]

\* The modal before any card was expanded: closed, its body empty.
ClosedModal == [open |-> FALSE, body |-> <<>>]

\* The listeners that close the modal, as init leaves them installed:
\* app.js lines 483-488 install one on the close button and one for the
\* Escape key; A line 513 installs the close button's, and line 514 raises
\* a ReferenceError before the backdrop's and the Escape key's are
\* installed; B lines 770-774 install all three.
modalListeners(v) ==
  CASE v = "app" -> {"close", "escape"}
    [] v = "A"   -> {"close"}
    [] v = "B"   -> {"close", "backdrop", "escape"}

NoHist == <<>>

\* Nothing has closed the list since the last input or focus event.
NotClosed == ""

\* No <img> has been followed yet.
NoImages == [cache |-> <<>>, probes |-> {}, els |-> {}, gen |-> 0, exists |-> {}]

InitPage ==
  /\ glossaryData = initialData(variant)
  /\ calls = IdleCalls
  /\ firstSuccess = [done |-> FALSE, doc |-> <<>>]
  /\ content = InitialContent
  /\ exceptions = {}
  /\ initPc = "start"
  /\ attached = FALSE
  /\ inputValue = <<>>
  /\ focused = FALSE
  /\ list = EmptyList
  /\ timeout = 0
  /\ pending = {}
  /\ runs = [superseded |-> FALSE, executed |-> FALSE, stale |-> FALSE]
  /\ lastRender = [id |-> "", outcome |-> "none"]
  /\ q_path = "none"
  /\ modal = ClosedModal
  /\ fills = {}
  /\ imageCache = {}
  /\ installed = {}
  /\ hist = NoHist
  /\ pageMeta = InitialMeta
  /\ images = NoImages
  /\ closedBy = NotClosed

Init == variant \in Variants /\ file \in Files /\ InitPage

\* DOMContentLoaded runs init().  app.js (470-472) and B (998-999) await
\* loadData(); A (509-514) does not await it, installs the close button's
\* listener and then stops at line 514 with a ReferenceError, the name
\* DOMEElements being declared nowhere.
init ==
  /\ initPc = "start"
  /\ loadData_begin(1)
  /\ initPc' = IF variant = "A" THEN "aborted" ELSE "awaiting"
  /\ exceptions' = IF variant = "A" THEN exceptions \cup {"init"} ELSE exceptions
  /\ installed' = IF variant = "A" THEN modalListeners("A") ELSE installed
  /\ UNCHANGED << variant, file, glossaryData, firstSuccess, content, attached,
                  inputValue, focused, list, timeout, pending, runs,
                  lastRender, q_path, modal, fills, imageCache, hist,
                  pageMeta, images, closedBy >>

\* The fetch of init's call delivers a document.  A calls attachAutocomplete
\* inside loadData (line 134); app.js goes on in init with attachAutocomplete
\* and the render of the first subject (475-480); B with
\* attachEventListeners (1000).
FetchOk ==
  /\ initPc \in {"awaiting", "aborted"}
  /\ loadData_ok(1)
  /\ attached' = TRUE
  /\ initPc' = IF variant = "A" THEN initPc ELSE "done"
  /\ IF variant = "app" /\ Len(file) > 0
       THEN LET r == renderMateria_app([isNull |-> FALSE, doc |-> file],
                                       file[1].id, content)
            IN  /\ content' = r.content
                /\ lastRender' = [id |-> file[1].id, outcome |-> r.outcome]
       ELSE UNCHANGED << content, lastRender >>
  /\ installed' = modalListeners(variant)
  /\ UNCHANGED << variant, file, exceptions, inputValue, focused, list, timeout,
                  pending, runs, q_path, modal, fills, imageCache, hist,
                  pageMeta, images, closedBy >>

\* The fetch of init's call fails.  A installs no search listener then;
\* app.js and B install theirs all the same.
FetchFail ==
  /\ initPc \in {"awaiting", "aborted"}
  /\ loadData_fail(1)
  /\ attached' = (variant # "A")
  /\ initPc' = IF variant = "A" THEN initPc ELSE "done"
  /\ installed' = modalListeners(variant)
  /\ UNCHANGED << variant, file, exceptions, inputValue, focused, list, timeout,
                  pending, runs, lastRender, q_path, modal, fills, imageCache,
                  hist, pageMeta, images, closedBy >>

\* History of a call of the debounced function: it supersedes the run an
\* earlier call had set, when it comes within that run's delay.
debounced ==
  [runs EXCEPT !.superseded =
     (@ \/ \E t \in pending :
              t.kind = "search" /\ t.id = timeout /\ t.remaining > 0)]

\* The model's bound on the timers lets one more be set.
roomForTimer == Cardinality(pending) < MaxPending

roomForDebounce == roomForTimer \/ \E t \in pending : t.id = timeout

\* The search input gets the focus.  app.js line 430 runs the debounced
\* handleSearch; A lines 477-482 search at once; B has no focus listener.
Focus ==
  /\ ~ focused
  /\ focused' = TRUE
  /\ IF attached /\ variant = "app"
       THEN /\ roomForDebounce
            /\ pending' = debounce(pending, timeout).pending
            /\ timeout' = debounce(pending, timeout).timeout
            /\ runs' = debounced
            /\ UNCHANGED list
       ELSE IF attached /\ variant = "A"
         THEN /\ list' = focusSearch_A(glossaryData, inputValue, list).list
              /\ UNCHANGED << pending, timeout, runs >>
         ELSE UNCHANGED << list, pending, timeout, runs >>
  /\ UNCHANGED << variant, file, loaderVars, content, exceptions, initPc, attached,
                  inputValue, lastRender, q_path >>
  /\ UNCHANGED cardVars
  /\ closedBy' = NotClosed

\* The user changes the input's value: an input event (app.js line 429,
\* A line 475, B line 745), handled by the debounced function.
Type(v) ==
  /\ focused
  /\ v # inputValue
  /\ inputValue' = v
  /\ IF attached
       THEN /\ roomForDebounce
            /\ pending' = debounce(pending, timeout).pending
            /\ timeout' = debounce(pending, timeout).timeout
            /\ runs' = debounced
       ELSE UNCHANGED << pending, timeout, runs >>
  /\ UNCHANGED << variant, file, loaderVars, content, exceptions, initPc, attached,
                  focused, list, lastRender, q_path >>
  /\ UNCHANGED cardVars
  /\ closedBy' = NotClosed

\* What the input's losing the focus sets: A lines 484-489 set a timer that
\* closes the list; app.js and B have no blur listener.
blurTimers ==
  IF attached /\ variant = "A"
    THEN pending \cup { Timer(freshId(pending, timeout), "blur", BlurMs) }
    ELSE pending

canBlur == (attached /\ variant = "A") => roomForTimer

\* The search input loses the focus.
Blur ==
  /\ focused
  /\ canBlur
  /\ focused' = FALSE
  /\ pending' = blurTimers
  /\ UNCHANGED << variant, file, loaderVars, content, exceptions, initPc, attached,
                  inputValue, list, timeout, runs, lastRender, q_path >>
  /\ UNCHANGED cardVars
  /\ UNCHANGED closedBy

\* Time passes.
Tick ==
  /\ \E t \in pending : t.remaining > 0
  /\ pending' = { [t EXCEPT !.remaining =
                     IF t.remaining > TickMs THEN t.remaining - TickMs ELSE 0]
                  : t \in pending }
  /\ UNCHANGED << variant, file, loaderVars, content, exceptions, initPc, attached,
                  inputValue, focused, list, timeout, runs, lastRender,
                  q_path >>
  /\ UNCHANGED cardVars
  /\ UNCHANGED closedBy

\* A timer whose delay has passed runs its callback: the search handler,
\* which reads the input's value now, or A's closing of the list.
Fire(t) ==
  /\ t \in pending
  /\ t.remaining = 0
  /\ pending' = pending \ {t}
  /\ IF t.kind = "search"
       THEN LET h == onInputRun(variant, glossaryData, inputValue, list)
            IN  /\ list' = h.list
                /\ exceptions' = IF h.threw THEN exceptions \cup {"handleSearch"}
                                 ELSE exceptions
                /\ runs' = [runs EXCEPT !.executed = TRUE,
                                         !.stale = (@ \/ t.stale)]
       ELSE /\ list' = [list EXCEPT !.open = FALSE]
            /\ UNCHANGED << exceptions, runs >>
  /\ UNCHANGED << variant, file, loaderVars, content, initPc, attached, inputValue,
                  focused, timeout, lastRender, q_path >>
  /\ UNCHANGED cardVars
  /\ UNCHANGED closedBy


\* ---- a click on a result ----

\* What a click handler leaves: the list and the input's value.
Clicked(l, value) == [list |-> l, inputValue |-> value]

\* app.js lines 403-405, without the hiding of the list.
resultClick_keepsOpen(l, item, value, outcome) == Clicked(l, item.text)

\* app.js lines 403-405: the input takes the item's text and the list is
\* hidden; its <li> stay in it.
resultClick_app(l, item, value, outcome) ==
  Clicked([l EXCEPT !.open = FALSE], item.text)

\* A lines 491-499, the list's mousedown listener: aria-expanded is set to
\* false and the input takes the item's text; the <li> stay in the list.
resultClick_A(l, item, value, outcome) ==
  Clicked([l EXCEPT !.open = FALSE], item.text)

\* B lines 843-860 and 748-752: handleSearchResultClick clears the list and
\* empties the input, unless renderMateria raised; the document's click
\* listener, which runs next, clears the list in either case.
resultClick_B(l, item, value, outcome) ==
  Clicked(clearSearchResults, IF outcome = "threw" THEN value ELSE <<>>)

resultClick(v, l, item, value, outcome) ==
  CASE v = "app" -> resultClick_app(l, item, value, outcome)
    [] v = "A"   -> resultClick_A(l, item, value, outcome)
    [] v = "B"   -> resultClick_B(l, item, value, outcome)

\* The <li> B puts into the list for an empty result: it has no data-*
\* attribute, so its dataset.materiaId is undefined.
NoResultsItem == Match("none", <<>>, "", "", "")

\* A click on <li> it of the open list (a mousedown in A), which also takes
\* the focus from the input.
clickOn(it) ==
  LET r == IF variant = "app" /\ it.sid = ""
             THEN Rendered(content, "none")
             ELSE renderMateria(variant, glossaryData, it.sid, content)
      c == resultClick(variant, list, it, inputValue, r.outcome)
  IN  /\ focused => canBlur
      /\ content' = r.content
      /\ lastRender' = IF r.outcome = "none" THEN lastRender
                       ELSE [id |-> it.sid, outcome |-> r.outcome]
      /\ exceptions' = IF r.outcome = "threw"
                         THEN exceptions \cup {"handleSearchResultClick"}
                         ELSE exceptions
      /\ list' = c.list
      /\ inputValue' = c.inputValue
      /\ focused' = FALSE
      /\ pending' = IF focused THEN blurTimers ELSE pending
      /\ pageMeta' = IF r.outcome = "none" THEN pageMeta
                     ELSE metaAfter(variant, glossaryData, it.sid, pageMeta)
      /\ UNCHANGED << variant, file, loaderVars, initPc, attached, timeout,
                      runs, q_path >>
      /\ UNCHANGED << modal, fills, imageCache, installed, hist, images >>
      /\ closedBy' = "select"

\* A click on the i-th result.
ClickItem(i) ==
  /\ attached
  /\ list.open
  /\ i \in 1..Len(list.items)
  /\ clickOn(list.items[i])

\* A click on B's "no results" <li>.
ClickNoResults ==
  /\ attached
  /\ list.open
  /\ list.noResults
  /\ clickOn(NoResultsItem)

\* What the document's click listener does to the list on a click outside
\* the input and the list: app.js lines 459-464 hide it, B lines 748-752
\* clear it, A has no such listener.
outsideClick(v, l) ==
  CASE v = "app" -> [l EXCEPT !.open = FALSE]
    [] v = "A"   -> l
    [] v = "B"   -> clearSearchResults

\* A click outside the search input and the list.
ClickOutside ==
  /\ focused => canBlur
  /\ list' = IF attached THEN outsideClick(variant, list) ELSE list
  /\ focused' = FALSE
  /\ pending' = IF focused THEN blurTimers ELSE pending
  /\ UNCHANGED << variant, file, loaderVars, content, exceptions, initPc, attached,
                  inputValue, timeout, runs, lastRender, q_path >>
  /\ UNCHANGED cardVars
  /\ closedBy' = IF attached /\ variant # "A" /\ list.open THEN "outside"
                 ELSE closedBy

Next ==
  \/ init
  \/ FetchOk
  \/ FetchFail
  \/ Focus
  \/ \E v \in Values : Type(v)
  \/ Blur
  \/ Tick
  \/ \E t \in pending : Fire(t)
  \/ \E i \in 1..MaxResults : ClickItem(i)
  \/ ClickNoResults
  \/ ClickOutside

Spec == Init /\ [][Next]_vars


\* ======================================================================
\* Properties of the page (specification Spec)
\* ======================================================================

searchPending == \E t \in pending : t.kind = "search"

\* C2: when the document fetch fails, the error placeholder is shown and
\* the document is treated as empty: no search or render event that can
\* still be triggered raises an exception, and none renders a subject.
C2_FailedLoadIsHarmless ==
  calls[1].failed =>
    /\ content = ErrorPlaceholder
    /\ "handleSearch" \notin exceptions
    /\ "handleSearchResultClick" \notin exceptions

\* C3: the debounced search handler runs only for the last input event of
\* a burst: at most one run is pending at any time, a call of the debounced
\* function leaves no earlier run set, and no run that a later call had
\* superseded is ever executed.
C3_DebounceLastOnly ==
  /\ Cardinality({ t \in pending : t.kind = "search" }) <= 1
  /\ \A t \in pending : ~ t.stale
  /\ ~ runs.stale

\* A burst happened (an input event came within the delay of the run an
\* earlier one had set), a run was executed since, and none is pending.
C3_Witness ==
  /\ runs.superseded
  /\ runs.executed
  /\ ~ searchPending

\* The lists a search for the input's present value can leave: the one of
\* the debounced handler and, in A, the one of the focus listener.
listsForValue ==
  { onInputRun(variant, glossaryData, inputValue, list).list.items }
  \cup (IF variant = "A" /\ Len(inputValue) > 2
          THEN { searchGlossary(glossaryData.doc, inputValue) } ELSE {})

\* C4: only the latest query's result is observable: whenever no search
\* run is pending, the result list on display is the result of searching
\* the document for the present content of the search input, never that of
\* an earlier, superseded query.
C4_LatestQueryShown ==
  (list.open /\ ~ searchPending) => list.items \in listsForValue

\* Results are on display for a query that superseded an earlier one.
C4_Witness ==
  /\ list.open
  /\ Len(list.items) > 0
  /\ ~ searchPending
  /\ runs.superseded
  /\ runs.executed

\* C10: a render request for a subject id that is not in the document is
\* signalled as not found and the "not found" placeholder is shown in the
\* content area; the page is never left as it was.
C10_UnknownIdShowsPlaceholder ==
  lastRender.outcome = "notfound" => content = NotFoundPlaceholder


\* ======================================================================
\* The loader called any number of times (specification SpecLoader)
\* ======================================================================

\* A call of loadData begins.
Call(c) ==
  /\ IF c = 1 THEN TRUE ELSE calls[c - 1].pc # "idle"
  /\ loadData_begin(c)
  /\ UNCHANGED << variant, file, glossaryData, firstSuccess, pageVars, q_path >>
  /\ UNCHANGED cardVars
  /\ UNCHANGED closedBy

\* The fetch of call c delivers the file; A's loadData goes on to
\* attachAutocomplete (line 134).
Delivered(c) ==
  /\ loadData_ok(c)
  /\ attached' = (attached \/ variant = "A")
  /\ UNCHANGED << variant, file, content, exceptions, initPc, inputValue,
                  focused, list, timeout, pending, runs, lastRender, q_path >>
  /\ UNCHANGED cardVars
  /\ UNCHANGED closedBy

\* The fetch of call c fails.
Failed(c) ==
  /\ loadData_fail(c)
  /\ UNCHANGED << variant, file, exceptions, initPc, attached, inputValue,
                  focused, list, timeout, pending, runs, lastRender, q_path >>
  /\ UNCHANGED cardVars
  /\ UNCHANGED closedBy

NextLoader ==
  \E c \in 1..MaxCalls : Call(c) \/ Delivered(c) \/ Failed(c)

SpecLoader == Init /\ [][NextLoader]_vars

\* C1: after a call to the loader has succeeded, every later call returns
\* the same cached document and issues no further fetch of the glossary
\* file: the number of fetches issued after the first success is zero.
C1_Memoized ==
  \A c \in 1..MaxCalls :
    calls[c].afterSuccess =>
      /\ ~ calls[c].fetched
      /\ calls[c].pc = "returned" => calls[c].ret = firstSuccess.doc

\* C1 in the one variant that tests its cache.
C1_MemoizedInB == variant = "B" => C1_Memoized


\* ======================================================================
\* The search handlers applied to documents and queries
\* (specification SpecSearch)
\* ======================================================================

\* The documents searched: the spec's example, two subjects, one more card
\* than the cap, and every pair of cards over Terms.
SearchDocs ==
  { DocExample, DocTwo, DocMany(MaxResults + 1) }
  \cup { DocPair(es1, en1, es2, en2) : es1 \in Terms, en1 \in Terms,
                                       es2 \in Terms, en2 \in Terms }

\* The values searched for.
SearchValues ==
  { <<>>, <<"a">>, <<"a","b">>, w_abc, w_ABC, <<" ","a","b","c"," ">>,
    w_cde, <<"c"," ","/">>, w_hola, <<"h","e","l">>, <<"t","e">>,
    <<"t","e","r","m">>, <<"z","z","z">>, <<"b","a","s">>, <<"1","0">> }

\* The page after a successful load of a document, the input focused.
InitSearch ==
  /\ variant \in Variants
  /\ file \in SearchDocs
  /\ glossaryData = [isNull |-> FALSE, doc |-> file]
  /\ calls = IdleCalls
  /\ firstSuccess = [done |-> TRUE, doc |-> file]
  /\ content = InitialContent
  /\ exceptions = {}
  /\ initPc = "done"
  /\ attached = TRUE
  /\ inputValue = <<>>
  /\ focused = TRUE
  /\ list = EmptyList
  /\ timeout = 0
  /\ pending = {}
  /\ runs = [superseded |-> FALSE, executed |-> FALSE, stale |-> FALSE]
  /\ lastRender = [id |-> "", outcome |-> "none"]
  /\ q_path = "none"
  /\ modal = ClosedModal
  /\ fills = {}
  /\ imageCache = {}
  /\ installed = modalListeners(variant)
  /\ hist = NoHist
  /\ pageMeta = InitialMeta
  /\ images = NoImages
  /\ closedBy = NotClosed

\* The handler of the focus event: app.js line 430 registers handleSearch
\* for it as well, A lines 477-482 have a listener of their own, B none.
onFocusRun(v, data, value, l) ==
  CASE v = "app" -> handleSearch_app(data, value, l)
    [] v = "A"   -> focusSearch_A(data, value, l)
    [] v = "B"   -> Handled(l, FALSE)

\* The input holds v and the handler of the input event runs.
SearchOnInput(v) ==
  /\ q_path = "none"
  /\ inputValue' = v
  /\ list' = onInputRun(variant, glossaryData, v, list).list
  /\ q_path' = "input"
  /\ UNCHANGED << variant, file, loaderVars, content, exceptions, initPc,
                  attached, focused, timeout, pending, runs, lastRender >>
  /\ UNCHANGED cardVars
  /\ UNCHANGED closedBy

\* The input holds v and the handler of the focus event runs.
SearchOnFocus(v) ==
  /\ q_path = "none"
  /\ variant # "B"
  /\ inputValue' = v
  /\ list' = onFocusRun(variant, glossaryData, v, list).list
  /\ q_path' = "focus"
  /\ UNCHANGED << variant, file, loaderVars, content, exceptions, initPc,
                  attached, focused, timeout, pending, runs, lastRender >>
  /\ UNCHANGED cardVars
  /\ UNCHANGED closedBy

NextSearch == \E v \in SearchValues : SearchOnInput(v) \/ SearchOnFocus(v)

SpecSearch == InitSearch /\ [][NextSearch]_vars

\* ---- what the claims speak of ----

\* The least length of a query that is searched for (B line 781:
\* query.length < 2 clears the list).  A searches for queries longer than
\* this only (lines 467 and 478: length > 2).
MinQuery == 2

\* A result's kind, whatever the variant calls it.
kindOf(type) ==
  CASE type \in {"subject", "materia"} -> "subject"
    [] type \in {"group", "grupo"}     -> "group"
    [] type \in {"card", "tarjeta"}    -> "card"
    [] OTHER -> "none"

\* The query, case folded.
needle == toLowerCase(inputValue)

subjectMatches(m) ==
  includes(toLowerCase(m.title), needle) \/ includes(toLowerCase(m.code), needle)

groupMatches(g) == includes(toLowerCase(g.title), needle)

cardMatches(c) ==
  includes(toLowerCase(c.es), needle) \/ includes(toLowerCase(c.en), needle)

doc == glossaryData.doc

\* The entities of the document that match the query, by position.
SubjectHits == { s \in 1..Len(doc) : subjectMatches(doc[s]) }

GroupHits ==
  { p \in UNION { { <<s, g>> : g \in 1..Len(doc[s].groups) } : s \in 1..Len(doc) } :
      groupMatches(doc[p[1]].groups[p[2]]) }

CardHits ==
  { p \in UNION { UNION { { <<s, g, c>> : c \in 1..Len(doc[s].groups[g].cards) }
                          : g \in 1..Len(doc[s].groups) } : s \in 1..Len(doc) } :
      cardMatches(doc[p[1]].groups[p[2]].cards[p[3]]) }

\* The positions of the list's items of one kind that carry subject id sid.
itemsOf(kind, sid) ==
  { i \in 1..Len(list.items) :
      kindOf(list.items[i].type) = kind /\ list.items[i].sid = sid }

\* C5: for any query shorter than the minimum length (at least 2
\* characters) search yields an empty result list, on the path of the input
\* event and on that of the focus event alike.
C5_ShortQueryEmpty ==
  (q_path # "none" /\ Len(inputValue) < MinQuery) => list.items = <<>>

\* C6: for any query and any document, the list of search results never
\* holds more than 10 entries.
C6_AtMostTen == Len(list.items) <= MaxResults

\* C7: for any query and any document, no two entries of the result list
\* have the same display text (duplicates are collapsed before the cap).
C7_NoDuplicateTexts ==
  \A i, j \in 1..Len(list.items) :
    i # j => list.items[i].text # list.items[j].text

\* C8: for any query, every returned match's display text contains the
\* query as a case-insensitive substring.
C8_TextContainsQuery ==
  \A i \in 1..Len(list.items) :
    includes(toLowerCase(list.items[i].text), trim(needle))

\* C9: search is complete below the cap: for a query of at least the
\* minimum length (here: long enough for every variant) for which fewer than 10 entities match, the result holds
\* one match for every subject, group and card that matches, each carrying
\* the id of the subject that holds it.
C9_CompleteBelowCap ==
  ( /\ q_path = "input"
    /\ Len(inputValue) > MinQuery
    /\ trim(inputValue) = inputValue
    /\ Cardinality(SubjectHits) + Cardinality(GroupHits)
         + Cardinality(CardHits) < MaxResults )
  => \A s \in 1..Len(doc) :
       /\ Cardinality(itemsOf("subject", doc[s].id))
            = Cardinality({ x \in SubjectHits : doc[x].id = doc[s].id })
       /\ Cardinality(itemsOf("group", doc[s].id))
            = Cardinality({ p \in GroupHits : doc[p[1]].id = doc[s].id })
       /\ Cardinality(itemsOf("card", doc[s].id))
            = Cardinality({ p \in CardHits : doc[p[1]].id = doc[s].id })


\* ======================================================================
\* The content area and the modal: cards, tabs, expansion
\* (specification SpecCards)
\* ======================================================================

\* ---- the card elements of the content area ----

\* The places <<panel, group, card>> of the card elements in content c.
Places(c) ==
  IF c.kind # "subject" THEN {}
  ELSE UNION { { <<0, g, k>> : k \in 1..Len(c.groups[g].cards) }
               : g \in 1..Len(c.groups) }
       \cup UNION { UNION { { <<p, g, k>> : k \in 1..Len(c.panels[p].groups[g].cards) }
                            : g \in 1..Len(c.panels[p].groups) }
                    : p \in 1..Len(c.panels) }

\* The card element at a place.
cardElAt(c, pl) ==
  IF pl[1] = 0 THEN c.groups[pl[2]].cards[pl[3]]
  ELSE c.panels[pl[1]].groups[pl[2]].cards[pl[3]]

\* The card record of the document a card element was made from (the
\* closure variable cardData of app.js line 215, the text of A's
\* dataset.cardData and of B's data-card).
cardRecord(data, id, el) ==
  LET materia == findMateria(data, id)
      hits == { q \in UNION { { <<g, k>> : k \in 1..Len(materia.groups[g].cards) }
                              : g \in 1..Len(materia.groups) } :
                  materia.groups[q[1]].cards[q[2]].id = el.id }
      q == CHOOSE q \in hits : TRUE
  IN  materia.groups[q[1]].cards[q[2]]

\* classList.add('card--flipped') in the place of classList.toggle.
toggleFlipped_addOnly(c, pl) == [c EXCEPT !.flipped = @ \cup {pl}]

\* classList.toggle('card--flipped') on the card element at place pl.
toggleFlipped(c, pl) ==
  [c EXCEPT !.flipped = IF pl \in @ THEN @ \ {pl} ELSE @ \cup {pl}]

\* ---- a click inside a card ----

\* The targets of a click inside a card: a face outside any control, the
\* flip control, the expand control.
CardTargets == { "face", "flip", "expand" }

\* The controls a card has: app.js builds an expand button alone (lines
\* 240-245); A and B build a flip and an expand button (A lines 159-160,
\* B lines 686-687).
hasTarget(v, target) == target = "flip" => v # "app"

\* What the click listeners do to the flipped cards.  app.js lines 255-259:
\* the card's listener flips on every click that reaches it, and the expand
\* button's listener stops the click.  A lines 300-313: the flip button and
\* a face flip, the expand button does not.  B lines 755-767: the delegated
\* listener flips for a click in a flip button alone.
cardClick_app(c, pl, target) ==
  IF target = "expand" THEN c ELSE toggleFlipped(c, pl)

cardClick_A(c, pl, target) ==
  IF target = "expand" THEN c ELSE toggleFlipped(c, pl)

cardClick_B(c, pl, target) ==
  IF target = "flip" THEN toggleFlipped(c, pl) ELSE c

cardClick(v, c, pl, target) ==
  CASE v = "app" -> cardClick_app(c, pl, target)
    [] v = "A"   -> cardClick_A(c, pl, target)
    [] v = "B"   -> cardClick_B(c, pl, target)

\* ---- the data an expand control hands to the modal ----

\* JSON.stringify(card): the card's fields between braces, the strings
\* between double quotes.  The fields the model keeps as one token (id,
\* def_es, def_en, img) are written as that token.
JSON_stringify(card) ==
  <<"{", "\"", "id", "\"", ":", "\"", card.id, "\"", ",",
    "\"", "e", "s", "\"", ":", "\"">> \o card.es
  \o <<"\"", ",", "\"", "e", "n", "\"", ":", "\"">> \o card.en
  \o <<"\"", ",", "\"", "d", "e", "f", "\"", ":", "\"",
       card.def_es, card.def_en, card.img, "\"", "}">>

\* JSON.parse(text) for a text that is to hold one of the cards: the card
\* whose serialisation the text is; a SyntaxError for any other text.
JSON_parse(text, cards) ==
  IF \E c \in cards : JSON_stringify(c) = text
    THEN [ok |-> TRUE, value |-> CHOOSE c \in cards : JSON_stringify(c) = text]
    ELSE [ok |-> FALSE, value |-> <<>>]

\* encodeURIComponent: letters, digits and - _ . ! ~ * ' ( ) are kept,
\* every other character is written as the % escapes of its UTF-8 bytes.
pctEncode(c) ==
  CASE c = " "  -> <<"%", "2", "0">>
    [] c = "\"" -> <<"%", "2", "2">>
    [] c = ","  -> <<"%", "2", "C">>
    [] c = "/"  -> <<"%", "2", "F">>
    [] c = ":"  -> <<"%", "3", "A">>
    [] c = "{"  -> <<"%", "7", "B">>
    [] c = "}"  -> <<"%", "7", "D">>
    [] OTHER    -> << c >>

encodeURIComponent(s) == Flatten([i \in 1..Len(s) |-> pctEncode(s[i])])

pctDecode(h) ==
  CASE h = <<"2", "0">> -> " "
    [] h = <<"2", "2">> -> "\""
    [] h = <<"2", "C">> -> ","
    [] h = <<"2", "F">> -> "/"
    [] h = <<"3", "A">> -> ":"
    [] h = <<"7", "B">> -> "{"
    [] h = <<"7", "D">> -> "}"
    [] OTHER -> "?"

\* decodeURIComponent: every % escape is replaced by its character.
RECURSIVE decodeURIComponent(_)
decodeURIComponent(s) ==
  IF s = <<>> THEN <<>>
  ELSE IF Head(s) = "%" /\ Len(s) >= 3
    THEN << pctDecode(<<s[2], s[3]>>) >> \o decodeURIComponent(SubSeq(s, 4, Len(s)))
    ELSE << Head(s) >> \o decodeURIComponent(Tail(s))

\* The value the HTML parser gives an attribute written between single
\* quotes (B lines 687 and 696, data-card='...'): the text up to the first
\* single quote.
RECURSIVE singleQuoted(_)
singleQuoted(s) ==
  IF s = <<>> \/ Head(s) = "'" THEN <<>>
  ELSE << Head(s) >> \o singleQuoted(Tail(s))

\* B lines 677 and 687: the attribute data-card of a card's expand buttons.
dataCard(card) == singleQuoted(encodeURIComponent(JSON_stringify(card)))

\* The card records of a subject.
cardsOf(materia) ==
  UNION { { materia.groups[g].cards[k] : k \in 1..Len(materia.groups[g].cards) }
          : g \in 1..Len(materia.groups) }

\* ---- the modal ----

\* What an expand handler leaves: the modal, the pending fills, whether it
\* raised an exception.
Expanded(m, fl, threw) == [modal |-> m, fills |-> fl, threw |-> threw]

\* How many calls of renderModalContent may await at a time.
MaxFills == 2

freshFill(fl) == CHOOSE n \in 1..(MaxFills + 1) : \A f \in fl : f.n # n

\* app.js lines 341-346 and 268-313: renderModalContent empties the modal's
\* body at once and appends the card's elements after `await
\* safeImageUrl(...)`, which answers from imageCache when the path is in
\* it (lines 91-93: the elements are appended before any other event) and
\* after a HEAD request otherwise; the modal is made visible at once.
handleExpand_app(card, m, fl, cache) ==
  IF card.img \in cache
    THEN Expanded([open |-> TRUE, body |-> << card >>], fl, FALSE)
    ELSE Expanded([open |-> TRUE, body |-> <<>>],
                  fl \cup { [n |-> freshFill(fl), card |-> card] }, FALSE)

\* A lines 307-308 and 354-381: the card is parsed from dataset.cardData
\* (line 180), written into the modal's body, and the modal is opened.
showModal_A(card, cards, m, fl) ==
  LET parsed == JSON_parse(JSON_stringify(card), cards)
  IN  IF parsed.ok
        THEN Expanded([open |-> TRUE, body |-> << parsed.value >>], fl, FALSE)
        ELSE Expanded(m, fl, TRUE)

\* B lines 869-873: the card is parsed from the button's data-card; a text
\* JSON.parse rejects raises a SyntaxError before the modal is touched.
handleExpand_B(card, cards, m, fl) ==
  LET parsed == JSON_parse(decodeURIComponent(dataCard(card)), cards)
  IN  IF parsed.ok
        THEN Expanded([open |-> TRUE, body |-> << parsed.value >>], fl, FALSE)
        ELSE Expanded(m, fl, TRUE)

handleExpand(v, card, cards, m, fl, cache) ==
  CASE v = "app" -> handleExpand_app(card, m, fl, cache)
    [] v = "A"   -> showModal_A(card, cards, m, fl)
    [] v = "B"   -> handleExpand_B(card, cards, m, fl)

\* Closing the modal: app.js lines 351-354, A lines 386-388, B lines
\* 962-964.  The close button, the Escape key and a click on the backdrop
\* close it where init installed a listener for them.
closeModal(listeners, kind, m) ==
  IF kind \in listeners THEN [m EXCEPT !.open = FALSE] ELSE m

\* ---- tabs ----

\* document.getElementById("window-" + wid): the first panel with the id.
panelOf(c, wid) ==
  CHOOSE p \in 1..Len(c.panels) :
    /\ c.panels[p].window = wid
    /\ \A q \in 1..(p - 1) : c.panels[q].window # wid

\* A lines 336-347: every button gets aria-selected "false" and every panel
\* aria-hidden "true"; then the clicked button gets "true" and its panel
\* "false".
handleTabClick_A(c, i) ==
  [c EXCEPT
     !.tabs = [k \in 1..Len(@) |->
                 [@[k] EXCEPT !.ariaSelected = IF k = i THEN "true" ELSE "false"]],
     !.panels = [k \in 1..Len(@) |->
                   [@[k] EXCEPT !.ariaHidden =
                      IF k = panelOf(c, c.tabs[i].window) THEN "false" ELSE "true"]]]

\* B lines 876-887: the class --active is taken from every tab and every
\* panel and given to the clicked tab and to its panel.
handleTabClick_B(c, i) ==
  [c EXCEPT
     !.tabs = [k \in 1..Len(@) |-> [@[k] EXCEPT !.active = (k = i)]],
     !.panels = [k \in 1..Len(@) |->
                   [@[k] EXCEPT !.active = (k = panelOf(c, c.tabs[i].window))]]]

handleTabClick(v, c, i) ==
  CASE v = "A"   -> handleTabClick_A(c, i)
    [] v = "B"   -> handleTabClick_B(c, i)
    [] OTHER     -> c

\* ---- the documents and the page the events act on ----

w_dont == <<"d","o","n","'","t">>

\* One subject with one window whose group holds two cards; the English
\* term of the second has an apostrophe in it.
DocQuote ==
  << Subject("S1", w_101, w_Intro,
             << Group("G1", w_Basics,
                      << Card("c1", w_hola, w_hello), Card("c2", w_abc, w_dont) >>) >>,
             TRUE, << Window("W1", w_Basics, << "G1" >>) >>) >>

CardDocs == { DocExample, DocTwo, DocQuote }

\* The ids a render is asked for: those of the document's subjects, and one
\* no subject has.
RenderIds == { file[s].id : s \in 1..Len(file) } \cup { "missing" }

\* The last event in the content area: what happened, where (the place of
\* the card, the tab, the id asked for), and before it the subject shown,
\* the flipped cards and whether the modal was open.
Remember(event, at) ==
  << [event |-> event, at |-> at,
      id |-> IF content.kind = "subject" THEN content.id ELSE "",
      flipped |-> IF content.kind = "subject" THEN content.flipped ELSE {},
      open |-> modal.open] >>

\* The page once init has run and the document is loaded: app.js has
\* rendered the first subject (lines 478-480), A and B show nothing yet; A's
\* init has stopped at line 514.
InitCards ==
  /\ variant \in Variants
  /\ file \in CardDocs
  /\ glossaryData = [isNull |-> FALSE, doc |-> file]
  /\ calls = IdleCalls
  /\ firstSuccess = [done |-> TRUE, doc |-> file]
  /\ content = IF variant = "app"
                 THEN renderMateria_app(glossaryData, file[1].id, InitialContent).content
                 ELSE InitialContent
  /\ exceptions = IF variant = "A" THEN {"init"} ELSE {}
  /\ initPc = IF variant = "A" THEN "aborted" ELSE "done"
  /\ attached = TRUE
  /\ inputValue = <<>>
  /\ focused = FALSE
  /\ list = EmptyList
  /\ timeout = 0
  /\ pending = {}
  /\ runs = [superseded |-> FALSE, executed |-> FALSE, stale |-> FALSE]
  /\ lastRender = IF variant = "app" THEN [id |-> file[1].id, outcome |-> "ok"]
                  ELSE [id |-> "", outcome |-> "none"]
  /\ q_path = "none"
  /\ modal = ClosedModal
  /\ fills = {}
  /\ imageCache = {}
  /\ installed = modalListeners(variant)
  /\ hist = NoHist
  /\ pageMeta = InitialMeta
  /\ images = NoImages
  /\ closedBy = NotClosed

\* What the events of the content area leave alone.
searchVars == << variant, file, loaderVars, initPc, attached, inputValue, focused,
                 list, timeout, pending, runs, q_path, installed, images,
                 closedBy >>

\* One of renderMateria's callers asks for the subject id.
RenderRequest(id) ==
  /\ ~ modal.open
  /\ LET r == renderMateria(variant, glossaryData, id, content)
     IN  /\ content' = r.content
         /\ lastRender' = [id |-> id, outcome |-> r.outcome]
         /\ exceptions' = IF r.outcome = "threw"
                            THEN exceptions \cup {"renderMateria"}
                            ELSE exceptions
  /\ pageMeta' = metaAfter(variant, glossaryData, id, pageMeta)
  /\ hist' = Remember("render", << id >>)
  /\ UNCHANGED << searchVars, modal, fills, imageCache >>

\* A click inside the card at place pl, on one of the card's targets.
CardClick(pl, target) ==
  /\ ~ modal.open
  /\ pl \in Places(content)
  /\ hasTarget(variant, target)
  /\ content' = cardClick(variant, content, pl, target)
  /\ IF target = "expand"
       THEN LET materia == findMateria(glossaryData, content.id)
                card == cardRecord(glossaryData, content.id, cardElAt(content, pl))
                x == handleExpand(variant, card, cardsOf(materia), modal, fills,
                                  imageCache)
            IN  /\ Cardinality(x.fills) <= MaxFills
                /\ modal' = x.modal
                /\ fills' = x.fills
                /\ exceptions' = IF x.threw THEN exceptions \cup {"handleExpand"}
                                 ELSE exceptions
       ELSE UNCHANGED << modal, fills, exceptions >>
  /\ hist' = Remember(target, pl)
  /\ UNCHANGED << searchVars, imageCache, lastRender, pageMeta >>

\* A click on the i-th tab button.
TabClick(i) ==
  /\ ~ modal.open
  /\ content.kind = "subject"
  /\ i \in 1..Len(content.tabs)
  /\ content' = handleTabClick(variant, content, i)
  /\ hist' = Remember("tab", << i >>)
  /\ UNCHANGED << searchVars, modal, fills, imageCache, lastRender, exceptions,
                  pageMeta >>

\* The events that are to close the modal, while it is open.
CloseKinds == { "close", "escape", "backdrop" }

CloseEvent(kind) ==
  /\ modal.open
  /\ modal' = closeModal(installed, kind, modal)
  /\ UNCHANGED << searchVars, content, fills, imageCache, lastRender, exceptions,
                  hist, pageMeta >>

\* app.js lines 279-313: the HEAD request of an awaiting renderModalContent
\* is answered; safeImageUrl notes the path and the card's elements are
\* appended to the modal's body.
FillDone(f) ==
  /\ f \in fills
  /\ fills' = fills \ {f}
  /\ imageCache' = imageCache \cup { f.card.img }
  /\ modal' = [modal EXCEPT !.body = Append(@, f.card)]
  /\ UNCHANGED << searchVars, content, lastRender, exceptions, hist, pageMeta >>

\* app.js line 229: the HEAD request renderCard made for a card of the
\* content area is answered, and safeImageUrl notes the path.
ImageChecked(pl) ==
  /\ variant = "app"
  /\ pl \in Places(content)
  /\ LET card == cardRecord(glossaryData, content.id, cardElAt(content, pl))
     IN  /\ card.img \notin imageCache
         /\ imageCache' = imageCache \cup { card.img }
  /\ UNCHANGED << searchVars, content, modal, fills, lastRender, exceptions,
                  hist, pageMeta >>

\* The places a card can have in the documents of the model.
AllPlaces == { <<p, g, k>> : p \in 0..2, g \in 1..2, k \in 1..2 }

NextCards ==
  \/ \E id \in RenderIds : RenderRequest(id)
  \/ \E pl \in AllPlaces, target \in CardTargets : CardClick(pl, target)
  \/ \E i \in 1..2 : TabClick(i)
  \/ \E kind \in CloseKinds : CloseEvent(kind)
  \/ \E f \in fills : FillDone(f)
  \/ \E pl \in AllPlaces : ImageChecked(pl)

SpecCards == InitCards /\ [][NextCards]_vars

\* ---------------------------------------------------------------------------
\* The claims about the content area and the modal
\* ---------------------------------------------------------------------------

\* The last event of the content area was a render request that succeeded.
justRendered ==
  /\ hist # NoHist
  /\ hist[1].event = "render"
  /\ lastRender.outcome = "ok"

\* C11: after a successful render of a subject the content area holds
\* exactly the rendering of that subject, whatever it held before: it is the
\* content a render of the same id leaves in an empty container, no card is
\* flipped and no tab but the first is active or selected.  Rendering the
\* same id again therefore leaves the same content.
C11_RenderReplaces ==
  justRendered =>
    /\ content = renderMateria(variant, glossaryData, lastRender.id,
                               InitialContent).content
    /\ content.kind = "subject"
    /\ content.id = lastRender.id
    /\ content.flipped = {}
    /\ \A i \in 1..Len(content.tabs) :
         i > 1 => ~ content.tabs[i].active /\ content.tabs[i].ariaSelected # "true"

\* The subject that was shown, with a card flipped, has been rendered again.
C11_Witness ==
  /\ justRendered
  /\ hist[1].id = lastRender.id
  /\ hist[1].flipped # {}

\* The last event of the content area was a request to render a subject of
\* the document.
renderedMateria == findMateria(glossaryData, lastRender.id)

renderAsked ==
  /\ hist # NoHist
  /\ hist[1].event = "render"
  /\ hasMateria(glossaryData, lastRender.id)

\* C12: for a subject that defines no windows a render succeeds and shows
\* every group of the subject exactly once, in document order, as one flat
\* sequence; each group section holds exactly one card for each card record,
\* with the card's term in language A on its front face.
C12_NoWindowsFlat ==
  (renderAsked /\ ~ renderedMateria.hasWindows) =>
    /\ lastRender.outcome = "ok"
    /\ content.kind = "subject"
    /\ content.id = lastRender.id
    /\ content.tabs = <<>>
    /\ content.panels = <<>>
    /\ Len(content.groups) = Len(renderedMateria.groups)
    /\ \A g \in 1..Len(renderedMateria.groups) :
         LET group == renderedMateria.groups[g]
             el == content.groups[g]
         IN  /\ el.id = group.id
             /\ Len(el.cards) = Len(group.cards)
             /\ \A k \in 1..Len(group.cards) :
                  /\ el.cards[k].id = group.cards[k].id
                  /\ el.cards[k].front = group.cards[k].es

\* The marks the scripts put on tabs and panels.  A tab is marked selected by
\* aria-selected "true" (A and B) or by the class materia__tab--active (B).
\* A panel is marked visible by aria-hidden "false" (A) or by the class
\* materia__window--active (B); it is marked not visible by aria-hidden
\* "true" (A) or by standing without that class (B).
tabSelected(t) == t.active \/ t.ariaSelected = "true"

panelVisible(p) == p.active \/ p.ariaHidden = "false"

panelHidden(v, p) == IF v = "B" THEN ~ p.active ELSE p.ariaHidden = "true"

\* The ids of the subject's groups that a window lists.
referenced(materia, w) ==
  { w.groups[k] : k \in 1..Len(w.groups) }
  \cap { materia.groups[g].id : g \in 1..Len(materia.groups) }

\* C13: immediately after rendering a subject that defines windows there is
\* one panel for each window, holding the groups the window references;
\* exactly the first tab is marked selected, exactly the first panel is
\* marked visible, and every other panel is marked not visible.  (The
\* scripts of part_000; app.js draws no tabs.)
C13_FirstPanelOnly ==
  (/\ variant \in {"A", "B"}
   /\ renderAsked
   /\ renderedMateria.hasWindows
   /\ Len(renderedMateria.windows) > 0) =>
    /\ lastRender.outcome = "ok"
    /\ content.kind = "subject"
    /\ Len(content.tabs) = Len(renderedMateria.windows)
    /\ Len(content.panels) = Len(renderedMateria.windows)
    /\ \A i \in 1..Len(renderedMateria.windows) :
         /\ content.panels[i].window = renderedMateria.windows[i].id
         /\ { content.panels[i].groups[g].id :
                g \in 1..Len(content.panels[i].groups) }
              = referenced(renderedMateria, renderedMateria.windows[i])
         /\ tabSelected(content.tabs[i]) <=> (i = 1)
         /\ panelVisible(content.panels[i]) <=> (i = 1)
         /\ (i > 1) => panelHidden(variant, content.panels[i])

\* C14: after a tab selection on a rendered subject with windows, whatever
\* selections came before it, exactly one tab is marked selected and exactly
\* one panel is marked visible: the tab that was selected last and the
\* panel of its window.
C14_OneTabOnePanel ==
  (hist # NoHist /\ hist[1].event = "tab") =>
    LET i == hist[1].at[1]
    IN  /\ \A k \in 1..Len(content.tabs) :
             tabSelected(content.tabs[k]) <=> (k = i)
        /\ \A k \in 1..Len(content.panels) :
             panelVisible(content.panels[k])
               <=> (content.panels[k].window = content.tabs[i].window)

\* The flipped cards once the card at place pl has changed sides.
otherSide(flipped, pl) == (flipped \ {pl}) \cup ({pl} \ flipped)

\* C15: a card changes between front and flipped on every click that lands
\* on it outside a control and on every activation of its flip control, and
\* each such click changes it exactly once: after the click the card is on
\* the side it was not on, and every other card is where it was.
C15_ClickToggles ==
  (hist # NoHist /\ hist[1].event \in {"face", "flip"}) =>
    content.flipped = otherSide(hist[1].flipped, hist[1].at)

\* The cards that are flipped in a content.
flippedIn(c) == IF c.kind = "subject" THEN c.flipped ELSE {}

\* The last event of the content area flipped the card it landed on.
justFlipped ==
  /\ hist # NoHist
  /\ hist[1].event \in {"face", "flip"}
  /\ content.flipped # hist[1].flipped

\* C16: two consecutive flips of the same card leave it in the state it had
\* before (once a click has flipped a card, the same click again gives back
\* the flipped cards there were before the first), and a flipped card stays
\* flipped until it is flipped again or a render is asked for: every step
\* that takes a card back to front is a click on that card outside its
\* expand control, or a render request.
C16_FlipTwiceRestores ==
  /\ [](justFlipped =>
          cardClick(variant, content, hist[1].at, hist[1].event).flipped
            = hist[1].flipped)
  /\ [][\A pl \in flippedIn(content) :
          \/ pl \in flippedIn(content')
          \/ /\ hist' # hist
             /\ \/ hist'[1].event = "render"
                \/ hist'[1].event \in {"face", "flip"} /\ hist'[1].at = pl]_vars

\* A card that was flipped has been clicked back to front while another
\* card stayed flipped.
C16_Witness ==
  /\ justFlipped
  /\ hist[1].at \in hist[1].flipped
  /\ hist[1].at \notin content.flipped
  /\ content.flipped # {}

\* The card record behind the card element at a place of the content area.
cardAt(pl) == cardRecord(glossaryData, content.id, cardElAt(content, pl))

\* C17: activating the expand control of a card, whether the card shows its
\* front or is flipped, opens the modal and leaves the flipped cards as they
\* are; and once the handler and what it awaits have finished, the modal's
\* body holds that card's data (both terms, both definitions, the image) and
\* nothing else.
C17_ExpandOpensModal ==
  /\ (content.kind = "subject" /\ ~ modal.open) =>
       \A pl \in Places(content) :
         LET x == handleExpand(variant, cardAt(pl),
                               cardsOf(findMateria(glossaryData, content.id)),
                               modal, fills, imageCache)
         IN  /\ x.modal.open
             /\ ~ x.threw
             /\ cardClick(variant, content, pl, "expand").flipped = content.flipped
  /\ (hist # NoHist /\ hist[1].event = "expand" /\ fills = {}) =>
       /\ modal.body = << cardAt(hist[1].at) >>
       /\ content.flipped = hist[1].flipped

\* C18: whenever the modal is open, each of the Escape key, the close
\* control and a click on the overlay's backdrop closes it, with the
\* listeners that are installed once initialisation has run.
C18_ThreeWaysClose ==
  modal.open =>
    \A kind \in CloseKinds : ~ closeModal(installed, kind, modal).open

\* ======================================================================
\* The keyboard in the search input (specification SpecKeys)
\* ======================================================================

\* The indices count from 0 as in the scripts; -1 is "no <li> is active".

\* app.js line 437: findIndex gives the first <li> that has the class.
activeIndex_app(l) ==
  IF \E k \in 1..Len(l.selected) : l.selected[k]
    THEN (CHOOSE k \in 1..Len(l.selected) :
            /\ l.selected[k]
            /\ \A j \in 1..(k - 1) : ~ l.selected[j]) - 1
    ELSE -1

\* B lines 813-818: the loop leaves the last <li> whose aria-selected is
\* "true".
activeIndex_B(l) ==
  IF \E k \in 1..Len(l.selected) : l.selected[k]
    THEN (CHOOSE k \in 1..Len(l.selected) :
            /\ l.selected[k]
            /\ \A j \in (k + 1)..Len(l.selected) : ~ l.selected[j]) - 1
    ELSE -1

activeIndex(v, l) == IF v = "B" THEN activeIndex_B(l) ELSE activeIndex_app(l)

\* ArrowDown without the remainder: the index stops at the last <li>.
arrowDown_noWrap(a, n) == IF a + 1 < n THEN a + 1 ELSE n - 1

\* app.js line 441, B line 822: (activeIndex + 1) % items.length.
arrowDown(a, n) == (a + 1) % n

\* app.js line 444, B line 825: (activeIndex - 1 + items.length) %
\* items.length.  The dividend is negative only for -1 among one <li>, where
\* the script's -0 selects the <li> as 0 does.
arrowUp(a, n) == (a - 1 + n) % n

\* The flags that mark the a-th of n <li> alone (app.js lines 451-454, B
\* lines 834-838).
markActive(l, a) ==
  [l EXCEPT !.selected = [k \in 1..Len(@) |-> (k - 1 = a)]]

Keys == { "ArrowDown", "ArrowUp", "Enter", "Escape", "x" }

\* What a keydown handler leaves: the list, and the index of the <li> whose
\* click() it called (-1: none).
Keyed(l, click) == [list |-> l, click |-> click]

\* app.js lines 433-456.  The <li> are those of the list, shown or hidden;
\* Enter returns before the flags are written, every other key writes them.
keydown_app(l, key) ==
  LET n == Len(l.selected)
      a == activeIndex_app(l)
  IN  IF n = 0 THEN Keyed(l, -1)
      ELSE CASE key = "ArrowDown" -> Keyed(markActive(l, arrowDown(a, n)), -1)
             [] key = "ArrowUp"   -> Keyed(markActive(l, arrowUp(a, n)), -1)
             [] key = "Enter"     -> Keyed(l, a)
             [] OTHER             -> Keyed(markActive(l, a), -1)

\* B lines 809-840.  The <li> include the "no results" one; Enter clicks
\* only when an <li> is active, Escape clears the list, and the flags are
\* written for the two arrows alone.
keydown_B(l, key) ==
  LET n == Len(l.selected)
      a == activeIndex_B(l)
  IN  IF n = 0 THEN Keyed(l, -1)
      ELSE CASE key = "ArrowDown" -> Keyed(markActive(l, arrowDown(a, n)), -1)
             [] key = "ArrowUp"   -> Keyed(markActive(l, arrowUp(a, n)), -1)
             [] key = "Enter"     -> Keyed(l, a)
             [] key = "Escape"    -> Keyed(clearSearchResults, -1)
             [] OTHER             -> Keyed(l, -1)

keydown(v, l, key) == IF v = "B" THEN keydown_B(l, key) ELSE keydown_app(l, key)

\* The a-th <li> of the list.
itemAt(l, a) == IF l.noResults THEN NoResultsItem ELSE l.items[a + 1]

\* What the click listeners leave when <li> it is clicked while the list is
\* l, the input holds value and the content area c (app.js lines 403-417,
\* B lines 843-860).
clickEffect(v, data, it, l, value, c) ==
  LET r == IF v = "app" /\ it.sid = ""
             THEN Rendered(c, "none")
             ELSE renderMateria(v, data, it.sid, c)
      k == resultClick(v, l, it, value, r.outcome)
  IN  [content |-> r.content, outcome |-> r.outcome, list |-> k.list,
       inputValue |-> k.inputValue]

\* The documents and the values typed.
KeyDocs == { DocExample, DocTwo }

KeyValues == { <<>>, w_hola, <<"z","z","z">>, <<"1","0">> }

\* The last event in the search box: the key, "click" or "input"; the index
\* of the <li> that was active (for a click, that was clicked); and before
\* it the list, the input's value and the content area.
RememberKey(event, at) ==
  << [event |-> event, at |-> at, list |-> list, inputValue |-> inputValue,
      content |-> content] >>

\* The page after a successful load, in the scripts that listen for keydown
\* on the search input (A does not).
InitKeys ==
  /\ variant \in {"app", "B"}
  /\ file \in KeyDocs
  /\ glossaryData = [isNull |-> FALSE, doc |-> file]
  /\ calls = IdleCalls
  /\ firstSuccess = [done |-> TRUE, doc |-> file]
  /\ content = InitialContent
  /\ exceptions = {}
  /\ initPc = "done"
  /\ attached = TRUE
  /\ inputValue = <<>>
  /\ focused = TRUE
  /\ list = EmptyList
  /\ timeout = 0
  /\ pending = {}
  /\ runs = [superseded |-> FALSE, executed |-> FALSE, stale |-> FALSE]
  /\ lastRender = [id |-> "", outcome |-> "none"]
  /\ q_path = "none"
  /\ modal = ClosedModal
  /\ fills = {}
  /\ imageCache = {}
  /\ installed = modalListeners(variant)
  /\ hist = NoHist
  /\ pageMeta = InitialMeta
  /\ images = NoImages
  /\ closedBy = NotClosed

keyFrame == << variant, file, loaderVars, initPc, attached, timeout, pending,
               runs, q_path, modal, fills, imageCache, installed, images,
               closedBy >>

\* The input is focused, holds v, and the debounced handler of the input
\* event has run for it.
KeySearch(v) ==
  /\ focused' = TRUE
  /\ inputValue' = v
  /\ list' = onInputRun(variant, glossaryData, v, list).list
  /\ hist' = RememberKey("input", activeIndex(variant, list))
  /\ UNCHANGED << keyFrame, content, lastRender, exceptions, pageMeta >>

\* The effect of a click on <li> it on the content area, the list and the
\* input.
clickStep(it) ==
  LET e == clickEffect(variant, glossaryData, it, list, inputValue, content)
  IN  /\ content' = e.content
      /\ list' = e.list
      /\ inputValue' = e.inputValue
      /\ lastRender' = IF e.outcome = "none" THEN lastRender
                       ELSE [id |-> it.sid, outcome |-> e.outcome]
      /\ exceptions' = IF e.outcome = "threw"
                         THEN exceptions \cup {"handleSearchResultClick"}
                         ELSE exceptions
      /\ pageMeta' = IF e.outcome = "none" THEN pageMeta
                     ELSE metaAfter(variant, glossaryData, it.sid, pageMeta)

\* A key goes down in the focused search input.
KeyDown(key) ==
  /\ focused
  /\ LET k == keydown(variant, list, key)
     IN  IF k.click >= 0
           THEN clickStep(itemAt(list, k.click))
           ELSE /\ list' = k.list
                /\ UNCHANGED << content, inputValue, lastRender, exceptions,
                                pageMeta >>
  /\ hist' = RememberKey(key, activeIndex(variant, list))
  /\ UNCHANGED << keyFrame, focused >>

\* A pointer click on the i-th <li> of the open list: the click takes the
\* focus from the input.
PointerClick(i) ==
  /\ list.open
  /\ i \in 0..(Len(list.selected) - 1)
  /\ clickStep(itemAt(list, i))
  /\ focused' = FALSE
  /\ hist' = RememberKey("click", i)
  /\ UNCHANGED keyFrame

NextKeys ==
  \/ \E v \in KeyValues : KeySearch(v)
  \/ \E key \in Keys : KeyDown(key)
  \/ \E i \in 0..MaxResults : PointerClick(i)

SpecKeys == InitKeys /\ [][NextKeys]_vars

\* ---------------------------------------------------------------------------
\* The claims about the keyboard in the search input
\* ---------------------------------------------------------------------------

\* The <li> of a list that are marked active.
activeItems(l) == { k \in 1..Len(l.selected) : l.selected[k] }

\* The last event was the key, pressed while an <li> was active.
keyedWithActive(key) ==
  /\ hist # NoHist
  /\ hist[1].event = key
  /\ hist[1].at >= 0

\* C19: at most one result of the autocomplete list is active at any time,
\* and ArrowDown and ArrowUp move the active index circularly through the
\* results: ArrowDown on the last activates the first, ArrowUp on the first
\* activates the last, and otherwise the index moves by exactly one.
C19_ArrowsCircular ==
  /\ Cardinality(activeItems(list)) <= 1
  /\ keyedWithActive("ArrowDown") =>
       LET n == Len(hist[1].list.selected)
           a == hist[1].at
       IN  /\ Len(list.selected) = n
           /\ activeIndex(variant, list) = IF a = n - 1 THEN 0 ELSE a + 1
  /\ keyedWithActive("ArrowUp") =>
       LET n == Len(hist[1].list.selected)
           a == hist[1].at
       IN  /\ Len(list.selected) = n
           /\ activeIndex(variant, list) = IF a = 0 THEN n - 1 ELSE a - 1

\* ArrowDown was pressed on the last of three results or more, and the
\* first is active.
C19_Witness ==
  /\ keyedWithActive("ArrowDown")
  /\ ~ list.noResults
  /\ Len(list.items) >= 3
  /\ hist[1].at = Len(list.items) - 1
  /\ activeItems(list) = {1}

\* The <li> that was active before the last event was a result (B's "no
\* results" <li> is none).
resultWasActive == hist[1].at >= 0 /\ ~ hist[1].list.noResults

\* What a click on the <li> that was active or clicked leaves, from the
\* state before the last event.
lastClickEffect ==
  clickEffect(variant, glossaryData, itemAt(hist[1].list, hist[1].at),
              hist[1].list, hist[1].inputValue, hist[1].content)

\* C20: pressing Enter while a result is active has the same effect on the
\* rendered subject, the input's value and the visibility of the list as a
\* pointer click on that result: both leave what the click listener leaves.
\* Pressing Enter while no result is active changes none of the three.
C20_EnterIsClick ==
  /\ (hist # NoHist /\ hist[1].event \in {"Enter", "click"} /\ resultWasActive) =>
       /\ content = lastClickEffect.content
       /\ inputValue = lastClickEffect.inputValue
       /\ list.open = lastClickEffect.list.open
  /\ (hist # NoHist /\ hist[1].event = "Enter" /\ ~ resultWasActive) =>
       /\ content = hist[1].content
       /\ inputValue = hist[1].inputValue
       /\ list.open = hist[1].list.open

\* C21: while the autocomplete list is shown, pressing Escape in the search
\* input, or a pointer event outside the input and the list, closes the list
\* and leaves the rendered subject unchanged: the Escape handler leaves a
\* closed list and clicks no <li>, and the document's click listener leaves
\* a closed list.
C21_EscapeAndOutsideClose ==
  list.open =>
    /\ ~ keydown(variant, list, "Escape").list.open
    /\ keydown(variant, list, "Escape").click = -1
    /\ ~ outsideClick(variant, list).open

\* C22: after any sequence of render requests the document title and the
\* meta description are those of the subject that was last rendered
\* successfully: right after a successful render they are that subject's,
\* and no step changes them but a successful render (a request for an
\* unknown id, or one that fails, leaves them as they were).
C22_MetaFollowsRender ==
  /\ [](justRendered => pageMeta = metaOf(renderedMateria))
  /\ [][pageMeta' # pageMeta =>
          /\ lastRender'.outcome = "ok"
          /\ pageMeta' = metaOf(findMateria(glossaryData, lastRender'.id))]_vars

\* ======================================================================
\* The images of the cards (specification SpecImages)
\* ======================================================================

\* images.cache is app.js's imageCache: for each path "" (undefined), the
\* path, or the placeholder.  images.els are the <img> elements of the
\* cards: [gen, card, path, src, outcome], attached while gen is the number
\* of the last render that wrote the content area.  images.probes are the
\* requests in flight: a HEAD request of safeImageUrl in app.js, the load of
\* the <img> itself in A.  images.exists are the paths the server has.

\* app.js line 95.
Placeholder == "assets/images/placeholder.png"

\* The path of a card's image (app.js line 224, A line 157).
primary(card) == card.img

ImagePaths == { primary(c) : c \in UNION { cardsOf(file[s]) : s \in 1..Len(file) } }

\* How many renders and how many requests in flight the model follows.
MaxGen == 3
MaxProbes == 3

freshProbe == CHOOSE n \in 1..(MaxProbes + 1) : \A p \in images.probes : p.n # n

\* The <img> renderCard builds for a card in render number g.  app.js lines
\* 220-229: safeImageUrl answers from imageCache when the path is in it
\* (lines 91-93) and the element takes the answer at once; otherwise a HEAD
\* request goes out.  A lines 157 and 166: the path is written into src and
\* safeImageUrl is not called.
newImg(v, cache, g, card) ==
  LET path == primary(card)
  IN  IF v = "app" /\ cache[path] # ""
        THEN [gen |-> g, card |-> card.id, path |-> path, src |-> cache[path],
              outcome |-> "cached"]
        ELSE [gen |-> g, card |-> card.id, path |-> path, src |-> path,
              outcome |-> "pending"]

\* The elements a request in flight belongs to are kept; the others of
\* earlier renders are forgotten.
awaited(els, probes) ==
  { e \in els : \E p \in probes : p.el = << e.gen, e.card >> }

\* renderMateria asks for subject id: the content area as in RenderRequest;
\* the <img> of the earlier render are detached, and a successful render
\* builds one for each card.
ImgRender(id) ==
  /\ images.gen < MaxGen
  /\ LET r == renderMateria(variant, glossaryData, id, content)
         g == images.gen + 1
         cards == IF r.outcome = "ok"
                    THEN cardsOf(findMateria(glossaryData, id)) ELSE {}
         new == { newImg(variant, images.cache, g, c) : c \in cards }
         asked == { e \in new : e.outcome = "pending" }
     IN  /\ r.content # content \/ r.outcome = "ok"
         /\ Cardinality(images.probes) + Cardinality(asked) <= MaxProbes + 1
         /\ content' = r.content
         /\ lastRender' = [id |-> id, outcome |-> r.outcome]
         /\ exceptions' = IF r.outcome = "threw"
                            THEN exceptions \cup {"renderMateria"}
                            ELSE exceptions
         /\ images' = [images EXCEPT
              !.gen = g,
              !.els = awaited(@, images.probes) \cup new,
              !.probes = @ \cup { [n |-> 0, path |-> e.path,
                                   el |-> << e.gen, e.card >>] : e \in asked }]
  /\ pageMeta' = metaAfter(variant, glossaryData, id, pageMeta)
  /\ hist' = Remember("render", << id >>)
  /\ UNCHANGED << variant, file, loaderVars, initPc, attached, inputValue,
                  focused, list, timeout, pending, runs, q_path, installed,
                  modal, fills, imageCache, closedBy >>

\* app.js lines 268-279: renderModalContent asks safeImageUrl for the image
\* of a card that is shown; a path that is not in imageCache is probed
\* again, whether or not a probe for it is in flight.
ImgExpand(e) ==
  /\ variant = "app"
  /\ e \in images.els
  /\ e.gen = images.gen
  /\ images.cache[e.path] = ""
  /\ Cardinality(images.probes) < MaxProbes
  /\ images' = [images EXCEPT
       !.probes = @ \cup { [n |-> freshProbe, path |-> e.path,
                            el |-> << 0, "modal" >>] }]
  /\ UNCHANGED << variant, file, loaderVars, pageVars, q_path, modal, fills,
                  imageCache, installed, hist, pageMeta, closedBy >>

\* What a request can come back with: "ok" when the server has the path,
\* "missing" when it has not, "failed" in either case (fetch rejects).
Outcomes(p) ==
  (IF p.path \in images.exists THEN {"ok"} ELSE {"missing"}) \cup {"failed"}

\* app.js lines 96-106: the answer is written into imageCache, the path for
\* an ok response and the placeholder otherwise.
cacheAfter(cache, path, outcome) ==
  [cache EXCEPT ![path] = IF outcome = "ok" THEN path ELSE Placeholder]

\* app.js line 229: the <img> the probe was started for takes the answer,
\* attached or not.  A: nothing listens for the load or its error.
imgAfter(v, e, outcome) ==
  IF v = "app"
    THEN [e EXCEPT !.src = IF outcome = "ok" THEN e.path ELSE Placeholder,
                   !.outcome = outcome]
    ELSE [e EXCEPT !.outcome = outcome]

\* A request in flight comes back.
ProbeDone(p, outcome) ==
  /\ p \in images.probes
  /\ outcome \in Outcomes(p)
  /\ images' = [images EXCEPT
       !.probes = @ \ {p},
       !.cache = IF variant = "app" THEN cacheAfter(@, p.path, outcome) ELSE @,
       !.els = { IF << e.gen, e.card >> = p.el
                   THEN imgAfter(variant, e, outcome) ELSE e : e \in @ }]
  /\ UNCHANGED << variant, file, loaderVars, pageVars, q_path, modal, fills,
                  imageCache, installed, hist, pageMeta, closedBy >>

ImgDocs == { DocExample, DocQuote }

\* The page once the document is loaded, in the scripts the claims about
\* images cite; the server has some of the images.
InitImages ==
  /\ variant \in {"app", "A"}
  /\ file \in ImgDocs
  /\ glossaryData = [isNull |-> FALSE, doc |-> file]
  /\ calls = IdleCalls
  /\ firstSuccess = [done |-> TRUE, doc |-> file]
  /\ content = InitialContent
  /\ exceptions = IF variant = "A" THEN {"init"} ELSE {}
  /\ initPc = IF variant = "A" THEN "aborted" ELSE "done"
  /\ attached = TRUE
  /\ inputValue = <<>>
  /\ focused = FALSE
  /\ list = EmptyList
  /\ timeout = 0
  /\ pending = {}
  /\ runs = [superseded |-> FALSE, executed |-> FALSE, stale |-> FALSE]
  /\ lastRender = [id |-> "", outcome |-> "none"]
  /\ q_path = "none"
  /\ modal = ClosedModal
  /\ fills = {}
  /\ imageCache = {}
  /\ installed = modalListeners(variant)
  /\ hist = NoHist
  /\ pageMeta = InitialMeta
  /\ closedBy = NotClosed
  /\ \E ex \in SUBSET ImagePaths :
       images = [cache |-> [p \in ImagePaths |-> ""], probes |-> {}, els |-> {},
                 gen |-> 0, exists |-> ex]

NextImages ==
  \/ \E id \in RenderIds : ImgRender(id)
  \/ \E e \in images.els : ImgExpand(e)
  \/ \E p \in images.probes, outcome \in {"ok", "missing", "failed"} :
       ProbeDone(p, outcome)

SpecImages == InitImages /\ [][NextImages]_vars

\* ---------------------------------------------------------------------------
\* The claims about the images
\* ---------------------------------------------------------------------------

\* The <img> of the cards that are shown.
shownImgs == { e \in images.els : e.gen = images.gen }

\* C23: for every card that is shown, once the loading or the probing of
\* its image has finished, the image's source is the card's own path when
\* the server has the image and the request succeeded, and the placeholder
\* when the image is missing or the request failed; the element is never
\* left without a source.
C23_ImageOrPlaceholder ==
  \A e \in shownImgs :
    e.outcome # "pending" =>
      /\ e.src # ""
      /\ (e.outcome = "ok") => e.src = e.path
      /\ (e.path \notin images.exists \/ e.outcome = "failed") => e.src = Placeholder

\* C24: an image probe that completes after its card has been removed from
\* the page changes no element: every <img> that is detached before a step
\* is, after the step, as it was (and so is every <img> that is shown and
\* that the completing probe was not started for).
C24_StaleProbeIsNoOp ==
  [][\A p \in images.probes :
       (/\ images'.probes = images.probes \ {p}
        /\ p.el[1] # 0
        /\ p.el[1] < images.gen) =>
         \A e \in images.els :
           \A f \in images'.els :
             (f.gen = e.gen /\ f.card = e.card) => f.src = e.src]_vars

\* C25: the image cache is written only by completions of image probes, and
\* an entry, once written for a path, never changes to a different value,
\* under every interleaving of overlapping probes for the same path.
C25_CacheWrittenOnce ==
  [][/\ images'.cache # images.cache =>
          \E p \in images.probes : images'.probes = images.probes \ {p}
     /\ \A path \in ImagePaths :
          images.cache[path] # "" => images'.cache[path] = images.cache[path]]_vars

\* C26: in app.js, once every pending renderModalContent has finished, the
\* modal's body holds the content of exactly one card, the one that was
\* expanded last, for every interleaving of expand, close and completion
\* events.
C26_ModalHoldsLastExpanded ==
  (/\ variant = "app"
   /\ hist # NoHist
   /\ hist[1].event = "expand"
   /\ fills = {}) =>
    modal.body = << cardAt(hist[1].at) >>


\* ======================================================================
\* The list after it was closed (specification Spec)
\* ======================================================================

\* C27: in app.js and B, once a click outside or the selection of a result
\* has closed the list, it stays closed and empty until the next input or
\* focus event on the search field: a debounced run that was set before
\* the list was closed does not open it again.
C27_StaysClosed ==
  (variant \in {"app", "B"} /\ closedBy # NotClosed) =>
    (~ list.open /\ list.items = <<>>)


\* The last event was the key, pressed while the list showed results and
\* none of them was active.
keyedWithNone(key) ==
  /\ hist # NoHist
  /\ hist[1].event = key
  /\ hist[1].at = -1
  /\ hist[1].list.open
  /\ ~ hist[1].list.noResults
  /\ Len(hist[1].list.selected) >= 1

\* The index that is active after the two keys are pressed on list l.
afterKeys(v, l, first, second) ==
  activeIndex(v, keydown(v, keydown(v, l, first).list, second).list)

\* C28: when the list shows n >= 1 results and none is active, ArrowDown
\* activates the first result and ArrowUp the last; and from any state with
\* an active result, ArrowDown followed by ArrowUp returns to that result.
C28_ArrowsFromNone ==
  /\ keyedWithNone("ArrowDown") => activeIndex(variant, list) = 0
  /\ keyedWithNone("ArrowUp") =>
       activeIndex(variant, list) = Len(hist[1].list.selected) - 1
  /\ (list.open /\ activeIndex(variant, list) >= 0) =>
       afterKeys(variant, list, "ArrowDown", "ArrowUp") = activeIndex(variant, list)


\* C29: in every state reached by rendering a subject with windows and
\* selecting tabs, the tab whose aria-selected is "true" is the tab that
\* controls the visible panel, and no other tab has aria-selected "true".
C29_AriaSelectedIsVisible ==
  (content.kind = "subject" /\ Len(content.tabs) >= 1) =>
    \A k \in 1..Len(content.tabs) :
      (content.tabs[k].ariaSelected = "true")
        <=> panelVisible(content.panels[panelOf(content, content.tabs[k].window)])


\* ======================================================================
\* The groups of a window (specification SpecWindows)
\* ======================================================================

\* The ids a window lists: those of the subject's two groups and one no
\* group has, in lists of up to MaxListed ids.
MaxListed == 3

ListedIds == { "G1", "G2", "GX" }

GroupLists == UNION { [1..n -> ListedIds] : n \in 0..MaxListed }

\* One subject with the groups G1 and G2 and two windows; the first window
\* lists the ids gs.
DocWindows(gs) ==
  << Subject("S1", w_101, w_Intro,
             << Group("G1", w_Basics, << Card("c1", w_hola, w_hello) >>),
                Group("G2", w_Redes, << Card("c2", w_abc, w_cde) >>) >>,
             TRUE, << Window("W1", w_Basics, gs),
                      Window("W2", w_Redes, << "G2" >>) >>) >>

\* The page of A or B once the document is loaded; nothing is rendered yet.
InitWindows ==
  /\ variant \in {"A", "B"}
  /\ \E gs \in GroupLists : file = DocWindows(gs)
  /\ glossaryData = [isNull |-> FALSE, doc |-> file]
  /\ calls = IdleCalls
  /\ firstSuccess = [done |-> TRUE, doc |-> file]
  /\ content = InitialContent
  /\ exceptions = IF variant = "A" THEN {"init"} ELSE {}
  /\ initPc = IF variant = "A" THEN "aborted" ELSE "done"
  /\ attached = TRUE
  /\ inputValue = <<>>
  /\ focused = FALSE
  /\ list = EmptyList
  /\ timeout = 0
  /\ pending = {}
  /\ runs = [superseded |-> FALSE, executed |-> FALSE, stale |-> FALSE]
  /\ lastRender = [id |-> "", outcome |-> "none"]
  /\ q_path = "none"
  /\ modal = ClosedModal
  /\ fills = {}
  /\ imageCache = {}
  /\ installed = modalListeners(variant)
  /\ hist = NoHist
  /\ pageMeta = InitialMeta
  /\ images = NoImages
  /\ closedBy = NotClosed

NextWindows ==
  \/ \E id \in RenderIds : RenderRequest(id)
  \/ \E i \in 1..2 : TabClick(i)

SpecWindows == InitWindows /\ [][NextWindows]_vars

\* C30: for a subject with windows, renderWindow of A and renderMateria of
\* B put the same groups, in the same order and each as many times, into
\* every window's panel: the panels the page shows hold what either of the
\* two gives, also when the window lists the ids in another order than the
\* subject, repeats an id, or names an id no group of the subject has.
C30_SameGroupsInPanels ==
  (content.kind = "subject" /\ hasMateria(glossaryData, content.id)) =>
    LET materia == findMateria(glossaryData, content.id)
    IN  \A i \in 1..Len(content.panels) :
          /\ content.panels[i].groups = windowGroups_A(materia, materia.windows[i])
          /\ content.panels[i].groups = windowGroups_B(materia, materia.windows[i])

=============================================================================
